---- MODULE Spec2Model ----
(***************************************************************************)
(* Universal webhook receiver (Cloudflare Worker, Hono).                   *)
(*                                                                         *)
(* JavaScript strings are TLA+ strings; the only string primitives used    *)
(* are Len, SubSeq and \o, from which split, trim, toLowerCase, startsWith *)
(* and slice are built as the code uses them.                              *)
(***************************************************************************)
EXTENDS Integers, Sequences, FiniteSets, TLC

(***************************************************************************)
(* JavaScript values                                                       *)
(***************************************************************************)

\* The value `undefined` (an absent header, binding, query parameter or property).
Undefined == "<undefined>"

\* ToBoolean of a string-or-undefined value: `!x` is ~Truthy(x), `x || y` is Or(x, y).
Truthy(x) == x # Undefined /\ x # ""

Or(x, y) == IF Truthy(x) THEN x ELSE y

\* Object.prototype.constructor, the function every object literal and every
\* JSON.parse'd object inherits; as a string (template literal, TextEncoder) it is
\* this text, and its .length (declared parameter count) is 1.
ObjectFunction == "function Object() { [native code] }"

\* Property names an object inherits from Object.prototype with a function value
\* (valueOf, toString, hasOwnProperty, ... behave alike; one stands for them).
ObjectPrototypeKeys == {"constructor"}

\* obj[key] on a plain object: own property, else inherited, else undefined.
GetProperty(obj, key) ==
  IF key \in DOMAIN obj THEN obj[key]
  ELSE IF key \in ObjectPrototypeKeys THEN ObjectFunction
  ELSE Undefined

\* v.length: string length, or a function's declared parameter count.
Length(v) == IF v = ObjectFunction THEN 1 ELSE Len(v)

CharAt(s, i) == SubSeq(s, i, i)

WhiteSpace == {" ", "\t", "\n", "\r"}

RECURSIVE TrimStart(_)
TrimStart(s) ==
  IF Len(s) > 0 /\ CharAt(s, 1) \in WhiteSpace THEN TrimStart(SubSeq(s, 2, Len(s))) ELSE s

RECURSIVE TrimEnd(_)
TrimEnd(s) ==
  IF Len(s) > 0 /\ CharAt(s, Len(s)) \in WhiteSpace THEN TrimEnd(SubSeq(s, 1, Len(s) - 1)) ELSE s

\* String.prototype.trim
Trim(s) == TrimEnd(TrimStart(s))

\* String.prototype.indexOf for a one-character needle, 1-based; 0 when absent.
IndexOf(s, c) ==
  LET hits == {i \in 1..Len(s) : CharAt(s, i) = c}
  IN IF hits = {} THEN 0 ELSE CHOOSE i \in hits : \A j \in hits : i <= j

\* String.prototype.split for a one-character separator.
RECURSIVE Split(_, _)
Split(s, sep) ==
  LET i == IndexOf(s, sep)
  IN IF i = 0 THEN <<s>> ELSE <<SubSeq(s, 1, i - 1)>> \o Split(SubSeq(s, i + 1, Len(s)), sep)

\* String.prototype.startsWith
StartsWith(s, p) == Len(s) >= Len(p) /\ SubSeq(s, 1, Len(p)) = p

\* String.prototype.slice(n)
Slice(s, n) == SubSeq(s, n + 1, Len(s))

UpperCase == "ABCDEFGHIJKLMNOPQRSTUVWXYZ"
LowerCase == "abcdefghijklmnopqrstuvwxyz"
Digits == "0123456789"

CharsOf(s) == {CharAt(s, i) : i \in 1..Len(s)}

LowerChar(c) ==
  LET i == IndexOf(UpperCase, c) IN IF i = 0 THEN c ELSE CharAt(LowerCase, i)

\* String.prototype.toLowerCase
RECURSIVE ToLowerCase(_)
ToLowerCase(s) ==
  IF s = "" THEN "" ELSE LowerChar(CharAt(s, 1)) \o ToLowerCase(SubSeq(s, 2, Len(s)))

\* Array.prototype.join
RECURSIVE Join(_, _)
Join(parts, sep) ==
  IF Len(parts) = 0 THEN ""
  ELSE IF Len(parts) = 1 THEN parts[1]
  ELSE parts[1] \o sep \o Join(Tail(parts), sep)

\* Array.prototype.pop's result: the last element.
Last(seq) == seq[Len(seq)]

\* The printable ASCII characters in code order, codes 32..95 and 97..126 (a
\* backquote, code 96, cannot be written in a TLA+ string and occurs in no input).
AsciiLow == " !\"#$%&'(" \o ")" \o "*+,-./" \o Digits \o ":;<=>?@" \o UpperCase \o "[\\]^_"
AsciiHigh == LowerCase \o "{|}~"

\* TextEncoder.encode: one byte per ASCII character.
CharCode(c) ==
  IF IndexOf(AsciiLow, c) > 0 THEN IndexOf(AsciiLow, c) + 31 ELSE IndexOf(AsciiHigh, c) + 96

Encode(s) == [i \in 1..Len(s) |-> CharCode(CharAt(s, i))]

RECURSIVE BitXor(_, _)
BitXor(a, b) ==
  IF a = 0 /\ b = 0 THEN 0 ELSE (((a % 2) + (b % 2)) % 2) + 2 * BitXor(a \div 2, b \div 2)

RECURSIVE BitOr(_, _)
BitOr(a, b) ==
  IF a = 0 /\ b = 0 THEN 0
  ELSE (IF (a % 2) = 1 \/ (b % 2) = 1 THEN 1 ELSE 0) + 2 * BitOr(a \div 2, b \div 2)

(***************************************************************************)
(* JSON.parse, for the texts a token map is configured with: a flat object *)
(* of string values without escapes; any other text is a syntax error.     *)
(***************************************************************************)
IsQuoted(s) == Len(s) >= 2 /\ CharAt(s, 1) = "\"" /\ CharAt(s, Len(s)) = "\""

Unquote(s) == SubSeq(s, 2, Len(s) - 1)

IsJsonMember(piece) ==
  LET kv == Split(piece, ":")
  IN /\ Len(kv) = 2
     /\ IsQuoted(Trim(kv[1]))
     /\ IsQuoted(Trim(kv[2]))
     /\ "\"" \notin CharsOf(Unquote(Trim(kv[1])))
     /\ "\"" \notin CharsOf(Unquote(Trim(kv[2])))

MemberKey(piece) == Unquote(Trim(Split(piece, ":")[1]))
MemberValue(piece) == Unquote(Trim(Split(piece, ":")[2]))

\* [ok |-> FALSE] for a SyntaxError, else the parsed object as a function from its
\* own property names to their values (a repeated name keeps its last value).
JsonParse(text) ==
  LET t == Trim(text)
      inner == Trim(SubSeq(t, 2, Len(t) - 1))
      pieces == IF inner = "" THEN <<>> ELSE Split(inner, ",")
      n == Len(pieces)
  IN IF ~(Len(t) >= 2 /\ CharAt(t, 1) = "{" /\ CharAt(t, Len(t)) = "}")
       THEN [ok |-> FALSE, value |-> <<>>]
     ELSE IF \E i \in 1..n : ~IsJsonMember(pieces[i])
       THEN [ok |-> FALSE, value |-> <<>>]
     ELSE [ok |-> TRUE,
           value |-> [k \in {MemberKey(pieces[i]) : i \in 1..n} |->
                        MemberValue(pieces[CHOOSE i \in 1..n :
                                      /\ MemberKey(pieces[i]) = k
                                      /\ \A j \in 1..n : MemberKey(pieces[j]) = k => j <= i])]]

(***************************************************************************)
(* Responses                                                               *)
(***************************************************************************)

\* No response yet: the middleware called next().
NoResponse == [status |-> 0, code |-> 0, message |-> ""]

\* c.json({success: false, errors: [{code, message}]}, status)
ErrorJson(status, code, message) == [status |-> status, code |-> code, message |-> message]

(***************************************************************************)
(* middleware/auth.ts                                                      *)
(***************************************************************************)

\* ClientIp without the trim of the forwarded-for entry.
ClientIpUntrimmed(cf, xff) ==
  Or(cf, IF xff = Undefined THEN Undefined ELSE Split(xff, ",")[1])

\* The client IP the guards, the handler and the audit middleware all compute.
ClientIp(cf, xff) ==
  Or(cf, IF xff = Undefined THEN Undefined ELSE Trim(Split(xff, ",")[1]))

\* allowedIps.split(",").map(trim).filter(ip => ip !== "")
AllowedIpList(allowedIps) ==
  {Trim(Split(allowedIps, ",")[i]) : i \in 1..Len(Split(allowedIps, ","))} \ {""}

\* ipValidation that takes only a missing or empty list as "not configured".
ipValidationNoTrim(allowedIps, cf, xff) ==
  IF ~Truthy(allowedIps) THEN NoResponse
  ELSE IF ~Truthy(ClientIp(cf, xff))
    THEN ErrorJson(403, 4031, "Unable to determine client IP address")
  ELSE IF ClientIp(cf, xff) \notin AllowedIpList(allowedIps)
    THEN ErrorJson(403, 4032, "IP address not allowed")
  ELSE NoResponse

ipValidation(allowedIps, cf, xff) ==
  IF ~Truthy(allowedIps) \/ Trim(allowedIps) = "" THEN NoResponse
  ELSE IF ~Truthy(ClientIp(cf, xff))
    THEN ErrorJson(403, 4031, "Unable to determine client IP address")
  ELSE IF ClientIp(cf, xff) \notin AllowedIpList(allowedIps)
    THEN ErrorJson(403, 4032, "IP address not allowed")
  ELSE NoResponse

\* Bitwise accumulation over aBytes.length positions; a missing bBytes[i] is
\* undefined, which ^ converts to 0.
RECURSIVE XorAccumulate(_, _, _)
XorAccumulate(aBytes, bBytes, i) ==
  IF i > Len(aBytes) THEN 0
  ELSE BitOr(BitXor(aBytes[i], IF i <= Len(bBytes) THEN bBytes[i] ELSE 0),
             XorAccumulate(aBytes, bBytes, i + 1))

timingSafeEqual(a, b) ==
  IF Len(a) # Length(b) THEN FALSE
  ELSE XorAccumulate(Encode(a), Encode(b), 1) = 0

\* authHeader.startsWith("Bearer ") ? authHeader.slice(7) : authHeader
BearerToken(authHeader) ==
  IF StartsWith(authHeader, "Bearer ") THEN Slice(authHeader, 7) ELSE authHeader

tokenAuthentication(customerTokensJson, customerId, authHeader) ==
  IF ~Truthy(customerTokensJson) \/ Trim(customerTokensJson) = "" THEN NoResponse
  ELSE IF ~Truthy(customerId) THEN ErrorJson(400, 4003, "Missing customer_id")
  ELSE IF ~JsonParse(customerTokensJson).ok
    THEN ErrorJson(500, 5002, "Server configuration error")
  ELSE LET expectedToken == GetProperty(JsonParse(customerTokensJson).value, customerId)
       IN IF ~Truthy(expectedToken) THEN ErrorJson(403, 4033, "Unknown customer")
          ELSE IF ~Truthy(authHeader)
            THEN ErrorJson(401, 4011, "Authorization header is required")
          ELSE IF ~timingSafeEqual(BearerToken(authHeader), expectedToken)
            THEN ErrorJson(401, 4012, "Invalid API token for this customer")
          ELSE NoResponse

\* s2sAuthentication without the test for a missing header.
s2sAuthenticationNoHeaderTest(expectedToken, authHeader) ==
  IF ~Truthy(expectedToken) \/ Trim(expectedToken) = "" THEN NoResponse
  ELSE IF Truthy(authHeader) /\ ~timingSafeEqual(BearerToken(authHeader), expectedToken)
    THEN ErrorJson(401, 4012, "Invalid S2S token")
  ELSE NoResponse

s2sAuthentication(expectedToken, authHeader) ==
  IF ~Truthy(expectedToken) \/ Trim(expectedToken) = "" THEN NoResponse
  ELSE IF ~Truthy(authHeader)
    THEN ErrorJson(401, 4011, "Authorization header is required")
  ELSE IF ~timingSafeEqual(BearerToken(authHeader), expectedToken)
    THEN ErrorJson(401, 4012, "Invalid S2S token")
  ELSE NoResponse

(***************************************************************************)
(* endpoints/webhook.ts: tables and pure helpers                           *)
(***************************************************************************)
CONTENT_TYPE_EXTENSIONS ==
  [k \in {"application/json", "application/xml", "text/xml", "text/csv", "text/plain",
          "application/x-www-form-urlencoded", "multipart/form-data",
          "application/octet-stream"} |->
     CASE k = "application/json" -> "json"
       [] k \in {"application/xml", "text/xml"} -> "xml"
       [] k = "text/csv" -> "csv"
       [] k = "text/plain" -> "txt"
       [] k \in {"application/x-www-form-urlencoded", "multipart/form-data"} -> "form"
       [] OTHER -> "bin"]

VALID_TYPES == {"esl"}

CONTENT_TYPE_TO_FORMAT ==
  [k \in {"text/csv", "text/plain", "application/json", "application/xml", "text/xml"} |->
     CASE k = "text/csv" -> "csv"
       [] k = "text/plain" -> "text"
       [] k = "application/json" -> "json"
       [] OTHER -> "xml"]

\* data/customers.json is not part of the sources at hand; the directory is taken
\* from the specification's data model (id, accepted format, outlet aliases).  The
\* second customer's id is also listed as an outlet of the first.
Customers ==
  << [id |-> "mpl-zlin", data_format |-> "csv", outlets |-> <<"zlin-1", "txt-shop">>],
     [id |-> "txt-shop", data_format |-> "text", outlets |-> <<>>],
     [id |-> "any-shop", data_format |-> "all", outlets |-> <<"any-1">>] >>

NoCustomer == [id |-> Undefined, data_format |-> Undefined, outlets |-> <<>>]

\* Array.prototype.find: the first element satisfying the predicate, else undefined.
Find(arr, P(_), none) ==
  IF \E i \in 1..Len(arr) : P(arr[i])
  THEN arr[CHOOSE i \in 1..Len(arr) : P(arr[i]) /\ \A j \in 1..(i - 1) : ~P(arr[j])]
  ELSE none

Includes(arr, x) == \E i \in 1..Len(arr) : arr[i] = x

\* findCustomerByIdOrOutlet searching the outlets before the ids.
findCustomerByOutletFirst(customerId) ==
  LET ById(c) == c.id = customerId
      ByOutlet(c) == Includes(c.outlets, customerId)
      customer == Find(Customers, ByOutlet, NoCustomer)
  IN IF customer # NoCustomer THEN customer ELSE Find(Customers, ById, NoCustomer)

findCustomerByIdOrOutlet(customerId) ==
  LET ById(c) == c.id = customerId
      ByOutlet(c) == Includes(c.outlets, customerId)
      customer == Find(Customers, ById, NoCustomer)
  IN IF customer # NoCustomer THEN customer ELSE Find(Customers, ByOutlet, NoCustomer)

\* contentType.split(";")[0].trim().toLowerCase()
BaseType(contentType) == ToLowerCase(Trim(Split(contentType, ";")[1]))

\* isDataFormatAllowed looking the header up as sent, parameters and case included.
isDataFormatAllowedRaw(customer, contentType) ==
  IF customer.data_format = "all" THEN TRUE
  ELSE IF ~Truthy(contentType) THEN FALSE
  ELSE GetProperty(CONTENT_TYPE_TO_FORMAT, contentType) = customer.data_format

isDataFormatAllowed(customer, contentType) ==
  IF customer.data_format = "all" THEN TRUE
  ELSE IF ~Truthy(contentType) THEN FALSE
  ELSE GetProperty(CONTENT_TYPE_TO_FORMAT, BaseType(contentType)) = customer.data_format

getExtensionFromContentType(contentType) ==
  IF ~Truthy(contentType) THEN "bin"
  ELSE Or(GetProperty(CONTENT_TYPE_EXTENSIONS, BaseType(contentType)), "bin")

MaxCustomerIdLen == 64

CustomerIdChars == CharsOf(LowerCase) \cup CharsOf(UpperCase) \cup CharsOf(Digits) \cup {"_", "-"}

\* /^[a-zA-Z0-9_-]{1,64}$/
isValidCustomerId(customerId) ==
  /\ Len(customerId) >= 1
  /\ Len(customerId) <= MaxCustomerIdLen
  /\ CharsOf(customerId) \subseteq CustomerIdChars

(***************************************************************************)
(* Time.  The clock counts hours; hour 0 is 2025-01-01T00:00Z.             *)
(***************************************************************************)
HoursPerDay == 24

TwoDigits(n) == CharAt(Digits, (n \div 10) + 1) \o CharAt(Digits, (n % 10) + 1)

\* The days the clock runs over: January and February 2025 and the first days
\* of March.
Calendar ==
  [d \in 1..31 |-> "2025-01-" \o TwoDigits(d)] \o [d \in 1..28 |-> "2025-02-" \o TwoDigits(d)]
    \o <<"2025-03-01", "2025-03-02", "2025-03-03", "2025-03-04", "2025-03-05">>

\* Date.prototype.toISOString: always UTC.
ToISOString(t) ==
  Calendar[(t \div HoursPerDay) + 1] \o "T" \o TwoDigits(t % HoursPerDay) \o ":00:00.000Z"

\* date.toISOString().split("T")[0]
formatDate(t) == Split(ToISOString(t), "T")[1]

\* Number.prototype.toString for a natural number.
RECURSIVE NumberToString(_)
NumberToString(n) ==
  IF n < 10 THEN CharAt(Digits, n + 1) ELSE NumberToString(n \div 10) \o CharAt(Digits, (n % 10) + 1)

\* An identifier source that returns the same identifier at every draw.
UuidRepeated(n) == "550e8400-e29b-41d4-a716-446655440001"

\* crypto.randomUUID(): the n-th identifier drawn; no two draws are equal.
Uuid(n) == "550e8400-e29b-41d4-a716-44665544000" \o CharAt(Digits, n + 1)

(***************************************************************************)
(* State                                                                   *)
(***************************************************************************)
VARIABLES
  env,        \* the bindings ALLOWED_IPS, CUSTOMER_TOKENS, S2S_TOKEN
  bucket,     \* WEBHOOK_BUCKET: storage key -> stored object
  reqs,       \* the requests received so far, each with its position and response
  uuidCount,  \* how many identifiers crypto.randomUUID() has handed out
  now,        \* the clock, in hours
  kv,         \* AUDIT_KV: key -> the entry stored under it
  turso       \* the Turso database: the rows of audit_logs, and how often the
              \* scheduled handler has run and has executed its statement

vars == <<env, bucket, reqs, uuidCount, now, kv, turso>>

\* A request as the router hands it to the middleware chain.  passed lists the
\* guards and validation steps the request has got through, in order; known tells
\* whether, when the request arrived, an ingestion had already answered with the
\* identifier the request names, gone whether a delete of it had already answered
\* with success.  bg holds the writes handed to executionCtx.waitUntil that have
\* not settled yet, issued counts the writes handed over so far.
Request(route, type, customer_id, webhookId, cf, xff, authorization, contentType, body) ==
  [route |-> route, type |-> type, customer_id |-> customer_id, webhookId |-> webhookId,
   cfConnectingIp |-> cf, xForwardedFor |-> xff, authorization |-> authorization,
   contentType |-> contentType, body |-> body,
   pc |-> "start", passed |-> <<>>, receivedAt |-> 0,
   auditWebhookId |-> Undefined, auditErrorMessage |-> Undefined,
   date |-> Undefined, limit |-> Undefined, from |-> Undefined, to |-> Undefined,
   status_code |-> Undefined, storeFault |-> FALSE,
   key |-> Undefined, cursor |-> Undefined, page |-> <<>>, logs |-> <<>>,
   known |-> FALSE, gone |-> FALSE,
   bg |-> <<>>, issued |-> 0,
   res |-> NoResponse]

\* The query parameters of the listings, and whether the store's list call throws
\* for this request.
WithQuery(r, date, limit, cursor, from, to, status_code, storeFault) ==
  [r EXCEPT !.date = date, !.limit = limit, !.cursor = cursor, !.from = from, !.to = to,
            !.status_code = status_code, !.storeFault = storeFault]

\* app.onError for an HTTPException thrown by a handler.
Throw(r, status, message) ==
  [r EXCEPT !.pc = "done", !.auditErrorMessage = message,
            !.res = ErrorJson(status, status, message)]

\* A fault boundary that answers but leaves no message for the audit entry.
InternalErrorUnannotated(r) ==
  [r EXCEPT !.pc = "done", !.res = ErrorJson(500, 7000, "Internal Server Error")]

\* app.onError for anything else that was thrown.
InternalError(r) ==
  [r EXCEPT !.pc = "done", !.auditErrorMessage = "Internal Server Error",
            !.res = ErrorJson(500, 7000, "Internal Server Error")]

\* A middleware answered with c.json(...) itself; nothing is thrown.
Reject(r, response) == [r EXCEPT !.pc = "done", !.res = response]

InvalidTypeMessage == "Invalid type. Must be one of: esl"

(***************************************************************************)
(* middleware/audit.ts                                                     *)
(***************************************************************************)
\* JavaScript null.
Null == "<null>"

\* x || null
OrNull(x) == IF Truthy(x) THEN x ELSE Null

\* c.req.method
Method(r) == IF r.route = "webhook" THEN "POST" ELSE IF r.route = "delete" THEN "DELETE" ELSE "GET"

\* c.req.path
Path(r) ==
  CASE r.route = "webhook" -> "/webhook/" \o r.type \o "/" \o r.customer_id
    [] r.route \in {"download", "delete"} -> "/manage/webhooks/" \o r.webhookId
    [] r.route = "list" -> "/manage/webhooks"
    [] r.route = "customers" -> "/manage/customers"
    [] r.route = "audit" -> "/manage/audit"
    [] r.route = "root" -> "/"
    [] OTHER -> "/" \o r.route

\* 30 days, in the clock's hours (AUDIT_TTL, in seconds in the source).
AUDIT_TTL == 30 * HoursPerDay

\* 90 days, in the clock's hours (DELETE_LOG_TTL).
DELETE_LOG_TTL == 90 * HoursPerDay

\* The identifier crypto.randomUUID() hands the audit middleware for request i:
\* fresh, and apart from the identifiers of the stored objects.
AuditUuid(i) == "7d9f2c10-aaaa-4bbb-8ccc-00000000000" \o CharAt(Digits, i + 1)

\* The customer id the middleware takes from the path.
AuditCustomerId(path) ==
  LET pathParts == Split(path, "/")
  IN IF Len(pathParts) >= 4 /\ pathParts[2] = "webhook" THEN pathParts[4] ELSE Null

\* The entry the middleware builds for the answered request r at time t.  The
\* fields userAgent, requestSize and responseTimeMs are left out.
AuditValue(r, t) ==
  [method |-> Method(r),
   path |-> Path(r),
   statusCode |-> r.res.status,
   customerId |-> AuditCustomerId(Path(r)),
   sourceIp |-> OrNull(ClientIp(r.cfConnectingIp, r.xForwardedFor)),
   contentType |-> OrNull(r.contentType),
   errorMessage |-> OrNull(r.auditErrorMessage),
   webhookId |-> OrNull(r.auditWebhookId),
   timestamp |-> ToISOString(t)]

\* `audit:${dateStr}:${timestamp}:${uuid}` for request i at time t.
AuditKey(t, i) ==
  "audit:" \o formatDate(t) \o ":" \o NumberToString(t) \o ":" \o AuditUuid(i)

\* AUDIT_KV.put(key, value, {expirationTtl}) handed to waitUntil by request r.
WaitUntilPut(r, key, value, ttl) ==
  [r EXCEPT !.bg = Append(@, [key |-> key, value |-> value, expirationTtl |-> ttl]),
            !.issued = @ + 1]

\* The middleware without the exemption of the audit listing.
auditMiddlewareAuditsItself(r, i) ==
  IF r.pc # "done" THEN r
  ELSE WaitUntilPut(r, AuditKey(now, i), AuditValue(r, now), AUDIT_TTL)

\* auditMiddleware around the chain of request i, r being the request after the
\* step just taken: nothing until next() has returned, nothing for the audit
\* listing, else one put of the entry, not awaited.
auditMiddleware(r, i) ==
  IF r.pc # "done" THEN r
  ELSE IF Path(r) = "/manage/audit" THEN r
  ELSE WaitUntilPut(r, AuditKey(now, i), AuditValue(r, now), AUDIT_TTL)

(***************************************************************************)
(* POST /webhook/:type/:customer_id                                        *)
(*   ipValidation, tokenAuthentication, handleWebhook                      *)
(***************************************************************************)

\* The object handleWebhook hands to WEBHOOK_BUCKET.put, with the upload time the
\* store records for it.
StoredObject(r, id, storagePath, t) ==
  [key |-> storagePath,
   body |-> r.body,
   uploaded |-> t,
   httpMetadata |-> [contentType |-> Or(r.contentType, "application/octet-stream")],
   customMetadata |->
     [webhookId |-> id, type |-> r.type, customerId |-> r.customer_id,
      receivedAt |-> ToISOString(t),
      sourceIp |-> Or(ClientIp(r.cfConnectingIp, r.xForwardedFor), "unknown"),
      payloadSize |-> NumberToString(Len(r.body))]]

\* `${type}/${customer_id}/${dateFolder}/${webhookId}.${extension}`
StoragePath(type, customer_id, dateFolder, webhookId, extension) ==
  type \o "/" \o customer_id \o "/" \o dateFolder \o "/" \o webhookId \o "." \o extension

\* handleWebhook without the empty-body check.
handleWebhookNoBodyCheck(r, id, t) ==
  LET customer == findCustomerByIdOrOutlet(r.customer_id)
      storagePath == StoragePath(r.type, r.customer_id, formatDate(t), id,
                                 getExtensionFromContentType(r.contentType))
  IN IF ~Truthy(r.type) \/ r.type \notin VALID_TYPES
       THEN [throws |-> TRUE, status |-> 400, message |-> InvalidTypeMessage, passed |-> <<>>]
     ELSE IF ~Truthy(r.customer_id) \/ ~isValidCustomerId(r.customer_id)
       THEN [throws |-> TRUE, status |-> 400,
             message |-> "Customer ID must contain only alphanumeric characters, hyphens, and underscores (1-64 chars)",
             passed |-> <<"type">>]
     ELSE IF customer = NoCustomer
       THEN [throws |-> TRUE, status |-> 404, message |-> "Unknown customer or outlet",
             passed |-> <<"type", "customer_id">>]
     ELSE IF ~isDataFormatAllowed(customer, r.contentType)
       THEN [throws |-> TRUE, status |-> 415,
             message |-> "Unsupported content type. This customer only accepts: " \o customer.data_format,
             passed |-> <<"type", "customer_id", "customer">>]
     ELSE [throws |-> FALSE, webhookId |-> id, storagePath |-> storagePath,
           object |-> StoredObject(r, id, storagePath, t),
           passed |-> <<"type", "customer_id", "customer", "format", "body">>]

\* handleWebhook reading the body before it checks the format.
handleWebhookBodyFirst(r, id, t) ==
  LET customer == findCustomerByIdOrOutlet(r.customer_id)
      storagePath == StoragePath(r.type, r.customer_id, formatDate(t), id,
                                 getExtensionFromContentType(r.contentType))
  IN IF ~Truthy(r.type) \/ r.type \notin VALID_TYPES
       THEN [throws |-> TRUE, status |-> 400, message |-> InvalidTypeMessage, passed |-> <<>>]
     ELSE IF ~Truthy(r.customer_id) \/ ~isValidCustomerId(r.customer_id)
       THEN [throws |-> TRUE, status |-> 400,
             message |-> "Customer ID must contain only alphanumeric characters, hyphens, and underscores (1-64 chars)",
             passed |-> <<"type">>]
     ELSE IF customer = NoCustomer
       THEN [throws |-> TRUE, status |-> 404, message |-> "Unknown customer or outlet",
             passed |-> <<"type", "customer_id">>]
     ELSE IF Len(r.body) = 0
       THEN [throws |-> TRUE, status |-> 400, message |-> "Request body cannot be empty",
             passed |-> <<"type", "customer_id", "customer">>]
     ELSE IF ~isDataFormatAllowed(customer, r.contentType)
       THEN [throws |-> TRUE, status |-> 415,
             message |-> "Unsupported content type. This customer only accepts: " \o customer.data_format,
             passed |-> <<"type", "customer_id", "customer", "body">>]
     ELSE [throws |-> FALSE, webhookId |-> id, storagePath |-> storagePath,
           object |-> StoredObject(r, id, storagePath, t),
           passed |-> <<"type", "customer_id", "customer", "format", "body">>]

\* handleWebhook up to the storage write: the exception it throws, or the object
\* it is about to store under a fresh identifier id at time t.
handleWebhook(r, id, t) ==
  LET customer == findCustomerByIdOrOutlet(r.customer_id)
      storagePath == StoragePath(r.type, r.customer_id, formatDate(t), id,
                                 getExtensionFromContentType(r.contentType))
  IN IF ~Truthy(r.type) \/ r.type \notin VALID_TYPES
       THEN [throws |-> TRUE, status |-> 400, message |-> InvalidTypeMessage, passed |-> <<>>]
     ELSE IF ~Truthy(r.customer_id) \/ ~isValidCustomerId(r.customer_id)
       THEN [throws |-> TRUE, status |-> 400,
             message |-> "Customer ID must contain only alphanumeric characters, hyphens, and underscores (1-64 chars)",
             passed |-> <<"type">>]
     ELSE IF customer = NoCustomer
       THEN [throws |-> TRUE, status |-> 404, message |-> "Unknown customer or outlet",
             passed |-> <<"type", "customer_id">>]
     ELSE IF ~isDataFormatAllowed(customer, r.contentType)
       THEN [throws |-> TRUE, status |-> 415,
             message |-> "Unsupported content type. This customer only accepts: " \o customer.data_format,
             passed |-> <<"type", "customer_id", "customer">>]
     ELSE IF Len(r.body) = 0
       THEN [throws |-> TRUE, status |-> 400, message |-> "Request body cannot be empty",
             passed |-> <<"type", "customer_id", "customer", "format">>]
     ELSE [throws |-> FALSE, webhookId |-> id, storagePath |-> storagePath,
           object |-> StoredObject(r, id, storagePath, t),
           passed |-> <<"type", "customer_id", "customer", "format", "body">>]

\* R2 put: the object replaces whatever the key held.
\* A put that files the object under its webhook identifier alone.
PutUnderWebhookId(b, object) ==
  [k \in DOMAIN b \cup {object.customMetadata.webhookId} |->
     IF k = object.customMetadata.webhookId THEN object ELSE b[k]]

\* WEBHOOK_BUCKET.put(key, body, {httpMetadata, customMetadata}) taken by the store.
Put(b, object) ==
  [k \in DOMAIN b \cup {object.key} |-> IF k = object.key THEN object ELSE b[k]]

\* A chain in which the IP guard alone decides.
ReachesHandlerByIpOnly(e, r) ==
  ipValidation(e.ALLOWED_IPS, r.cfConnectingIp, r.xForwardedFor) = NoResponse

\* app.post("/webhook/:type/:customer_id", ipValidation, tokenAuthentication,
\* handleWebhook): whether request r gets to handleWebhook under the bindings e.
ReachesHandler(e, r) ==
  IF ipValidation(e.ALLOWED_IPS, r.cfConnectingIp, r.xForwardedFor) # NoResponse THEN FALSE
  ELSE tokenAuthentication(e.CUSTOMER_TOKENS, r.customer_id, r.authorization) = NoResponse

\* What the store may report when it rejects a put.
BackendErrors == {"Network connection lost", "internal error (10001)"}

\* A catch that passes the store's own message on to the caller.
PutFailedLeaksDetail(r, error) == Throw(r, 500, error)

\* catch (error) { console.error(...); throw new HTTPException(500, ...) }
PutFailed(r, error) == Throw(r, 500, "Failed to store webhook payload")

\* The whole chain for request i of the requests rs.  Nothing in it reads shared
\* state, and its one write is the put, so it is one step; the store may reject the put, and
\* then it has written nothing.
WebhookRoute(rs, i) ==
  /\ rs[i].route = "webhook"
  /\ rs[i].pc = "start"
  /\ LET r == [rs[i] EXCEPT !.receivedAt = now]
         ip == ipValidation(env.ALLOWED_IPS, r.cfConnectingIp, r.xForwardedFor)
         tok == tokenAuthentication(env.CUSTOMER_TOKENS, r.customer_id, r.authorization)
         h == handleWebhook(r, Uuid(uuidCount + 1), now)
     IN IF ip # NoResponse
          THEN /\ reqs' = [rs EXCEPT ![i] = auditMiddleware(Reject(r, ip), i)]
               /\ UNCHANGED <<bucket, uuidCount>>
        ELSE IF tok # NoResponse
          THEN /\ reqs' = [rs EXCEPT ![i] =
                             auditMiddleware(Reject([r EXCEPT !.passed = <<"ip">>], tok), i)]
               /\ UNCHANGED <<bucket, uuidCount>>
        ELSE IF h.throws
          THEN /\ reqs' = [rs EXCEPT ![i] =
                             auditMiddleware(
                               Throw([r EXCEPT !.passed = <<"ip", "token">> \o h.passed],
                                     h.status, h.message), i)]
               /\ UNCHANGED <<bucket, uuidCount>>
        ELSE /\ uuidCount' = uuidCount + 1
             /\ \/ /\ bucket' = Put(bucket, h.object)
                   /\ reqs' = [rs EXCEPT ![i] = auditMiddleware(
                        [r EXCEPT !.pc = "done", !.passed = <<"ip", "token">> \o h.passed,
                                  !.auditWebhookId = h.webhookId,
                                  !.res = [status |-> 200, success |-> TRUE,
                                           webhookId |-> h.webhookId,
                                           message |-> "Webhook received and stored successfully",
                                           storagePath |-> h.storagePath]], i)]
                \/ /\ bucket' = bucket
                   /\ \E error \in BackendErrors :
                        reqs' = [rs EXCEPT ![i] = auditMiddleware(
                          PutFailed([r EXCEPT !.passed = <<"ip", "token">> \o h.passed,
                                              !.auditWebhookId = h.webhookId],
                                    error), i)]
  /\ UNCHANGED <<env, turso, now, kv>>

(***************************************************************************)
(* The blob store's listing: keys in lexicographic (byte) order, filtered  *)
(* by prefix, resumed after a cursor, cut into pages.                      *)
(***************************************************************************)
RECURSIVE StrLess(_, _)
StrLess(a, b) ==
  IF b = "" THEN FALSE
  ELSE IF a = "" THEN TRUE
  ELSE IF CharAt(a, 1) # CharAt(b, 1) THEN CharCode(CharAt(a, 1)) < CharCode(CharAt(b, 1))
  ELSE StrLess(SubSeq(a, 2, Len(a)), SubSeq(b, 2, Len(b)))

RECURSIVE Sorted(_)
Sorted(S) ==
  IF S = {} THEN <<>>
  ELSE LET m == CHOOSE x \in S : \A y \in S \ {x} : StrLess(x, y)
       IN <<m>> \o Sorted(S \ {m})

\* The keys bucket.list({prefix, cursor}) still has to return, in order.
ListKeys(b, prefix, cursor) ==
  Sorted({k \in DOMAIN b : /\ (Truthy(prefix) => StartsWith(k, prefix))
                           /\ (Truthy(cursor) => StrLess(cursor, k))})

LIST_LIMIT == 1000

\* The sizes a page may have: at most the limit asked for, at least one object
\* while objects remain (the store may cut a page short and report truncated).
PageSizes(keys, limit) ==
  IF Len(keys) = 0 THEN {0} ELSE 1..(IF Len(keys) < limit THEN Len(keys) ELSE limit)

(***************************************************************************)
(* endpoints/webhookManagement.ts                                          *)
(***************************************************************************)
HexChars == CharsOf(Digits) \cup CharsOf("abcdef") \cup CharsOf("ABCDEF")

UuidGroups == <<8, 4, 4, 4, 12>>

\* /^[0-9a-f]{8}-[0-9a-f]{4}-[0-9a-f]{4}-[0-9a-f]{4}-[0-9a-f]{12}$/i
isValidUUID(str) ==
  LET groups == Split(str, "-")
  IN /\ Len(groups) = Len(UuidGroups)
     /\ \A g \in 1..Len(UuidGroups) :
          Len(groups[g]) = UuidGroups[g] /\ CharsOf(groups[g]) \subseteq HexChars

\* obj.key.split("/").pop() || ""
Filename(key) == Or(Last(Split(key, "/")), "")

\* FirstMatch comparing the identifier with the whole key instead of the filename.
FirstMatchWholeKey(page, webhookId) ==
  LET Hit(k) == StartsWith(k, webhookId)
  IN Find(page, Hit, Undefined)

\* One pass of findWebhookKeyById's for loop over a page: the first key of the
\* page whose filename starts with the identifier, else undefined.
FirstMatch(page, webhookId) ==
  LET Hit(k) == StartsWith(Filename(k), webhookId)
  IN Find(page, Hit, Undefined)

\* parseInt(str, 10): white space, an optional sign, then the leading digits;
\* NaN when there is none.
RECURSIVE DigitsValue(_, _)
DigitsValue(s, acc) ==
  IF Len(s) > 0 /\ IndexOf(Digits, CharAt(s, 1)) # 0
  THEN DigitsValue(SubSeq(s, 2, Len(s)), 10 * acc + IndexOf(Digits, CharAt(s, 1)) - 1)
  ELSE acc

ParseInt(str) ==
  LET t == TrimStart(str)
      signed == Len(t) > 0 /\ CharAt(t, 1) \in {"-", "+"}
      d == IF signed THEN SubSeq(t, 2, Len(t)) ELSE t
  IN IF Len(d) = 0 \/ IndexOf(Digits, CharAt(d, 1)) = 0 THEN [nan |-> TRUE, n |-> 0]
     ELSE [nan |-> FALSE,
           n |-> IF signed /\ CharAt(t, 1) = "-" THEN 0 - DigitsValue(d, 0) ELSE DigitsValue(d, 0)]

DEFAULT_LIMIT == 100

\* limitStr ? Math.min(Math.max(parseInt(limitStr, 10) || 100, 1), 1000) : 100
EffectiveLimit(limitStr) ==
  IF ~Truthy(limitStr) THEN DEFAULT_LIMIT
  ELSE LET parsed == ParseInt(limitStr)
           n == IF parsed.nan \/ parsed.n = 0 THEN DEFAULT_LIMIT ELSE parsed.n
           atLeast == IF n > 1 THEN n ELSE 1
       IN IF atLeast < LIST_LIMIT THEN atLeast ELSE LIST_LIMIT

\* /^\d{4}-\d{2}-\d{2}$/
IsDateFormat(str) ==
  /\ Len(str) = 10
  /\ \A n \in 1..10 :
       IF n \in {5, 8} THEN CharAt(str, n) = "-" ELSE IndexOf(Digits, CharAt(str, n)) # 0

\* The prefix listWebhooks lists under.
ListPrefix(r) ==
  IF ~Truthy(r.type) THEN ""
  ELSE IF ~Truthy(r.customer_id) THEN r.type
  ELSE IF ~Truthy(r.date) THEN r.type \o "/" \o r.customer_id
  ELSE r.type \o "/" \o r.customer_id \o "/" \o r.date

\* name.replace(/\.[^.]+$/, ""): the name without its last extension.
StripExtension(name) ==
  LET dots == {n \in 1..Len(name) : CharAt(name, n) = "."}
      last == CHOOSE n \in dots : \A m \in dots : m <= n
  IN IF dots = {} \/ last = Len(name) THEN name ELSE SubSeq(name, 1, last - 1)

\* WEBHOOK_BUCKET.head(key): the object, or null.
HeadObject(b, key) ==
  IF key \in DOMAIN b THEN [found |-> TRUE, object |-> b[key]] ELSE [found |-> FALSE]

\* What listWebhooks reports for a listed object, head being what
\* WEBHOOK_BUCKET.head returned for it.
WebhookSummary(obj, head) ==
  LET parts == Split(obj.key, "/")
      meta == IF ~head.found
              THEN [webhookId |-> Undefined, type |-> Undefined, customerId |-> Undefined,
                    receivedAt |-> Undefined]
              ELSE head.object.customMetadata
  IN [webhookId |-> Or(meta.webhookId, Or(StripExtension(Last(parts)), "")),
      type |-> Or(meta.type, Or(parts[1], "")),
      customerId |-> Or(meta.customerId, IF Len(parts) >= 2 THEN Or(parts[2], "") ELSE ""),
      contentType |-> IF ~head.found THEN "application/octet-stream"
                      ELSE Or(head.object.httpMetadata.contentType, "application/octet-stream"),
      receivedAt |-> Or(meta.receivedAt, ToISOString(obj.uploaded)),
      payloadSize |-> obj.size]

ManageRoutes == {"customers", "list", "download", "delete", "audit"}

\* The management routes up to the handler's first store call:
\* s2sAuthentication, then the handler's parameter checks; listCustomers answers.
ManageStart(rs, i) ==
  /\ rs[i].route \in ManageRoutes
  /\ rs[i].pc = "start"
  /\ LET r == rs[i]
         s2s == s2sAuthentication(env.S2S_TOKEN, r.authorization)
         r1 == [r EXCEPT !.passed = <<"s2s">>]
     IN reqs' = [rs EXCEPT ![i] = auditMiddleware(
          IF s2s # NoResponse THEN Reject(r, s2s)
          ELSE CASE r.route \in {"download", "delete"} ->
                      IF ~Truthy(r.webhookId) \/ ~isValidUUID(r.webhookId)
                        THEN Throw(r1, 400, "Invalid webhookId. Must be a valid UUID")
                      ELSE IF Truthy(r.type) /\ r.type \notin VALID_TYPES
                        THEN Throw(r1, 400, InvalidTypeMessage)
                      ELSE [r1 EXCEPT !.pc = "scan", !.cursor = Undefined]
                 [] r.route = "customers" ->
                      [r1 EXCEPT !.pc = "done",
                                 !.res = [status |-> 200, success |-> TRUE,
                                          customers |-> Customers]]
                 [] r.route = "list" ->
                      IF Truthy(r.type) /\ r.type \notin VALID_TYPES
                        THEN Throw(r1, 400, InvalidTypeMessage)
                      ELSE IF Truthy(r.date) /\ ~IsDateFormat(r.date)
                        THEN Throw(r1, 400, "Date must be in YYYY-MM-DD format")
                      ELSE [r1 EXCEPT !.pc = "list"]
                 [] r.route = "audit" ->
                      IF Truthy(r.from) /\ ~IsDateFormat(r.from)
                        THEN Throw(r1, 400, "Invalid 'from' date format. Use YYYY-MM-DD")
                      ELSE IF Truthy(r.to) /\ ~IsDateFormat(r.to)
                        THEN Throw(r1, 400, "Invalid 'to' date format. Use YYYY-MM-DD")
                      ELSE [r1 EXCEPT !.pc = "kvlist", !.cursor = Undefined], i)]
  /\ UNCHANGED <<env, turso, bucket, uuidCount, now, kv>>

\* listWebhooks: the WEBHOOK_BUCKET.list call.
ListWebhooks(i) ==
  /\ reqs[i].route = "list"
  /\ reqs[i].pc = "list"
  /\ LET r == reqs[i]
         keys == ListKeys(bucket, ListPrefix(r), r.cursor)
     IN IF r.storeFault THEN reqs' = [reqs EXCEPT ![i] = auditMiddleware(InternalError(r), i)]
        ELSE \E n \in PageSizes(keys, EffectiveLimit(r.limit)) :
          reqs' = [reqs EXCEPT ![i] =
            [r EXCEPT !.pc = "head",
                      !.page = [m \in 1..n |-> [key |-> keys[m], size |-> Len(bucket[keys[m]].body),
                                                uploaded |-> bucket[keys[m]].uploaded]],
                      !.cursor = IF n < Len(keys) THEN keys[n] ELSE Undefined]]
  /\ UNCHANGED <<env, turso, bucket, uuidCount, now, kv>>

\* listWebhooks: the WEBHOOK_BUCKET.head calls for the listed objects, taken
\* together, and the response.
HeadWebhooks(i) ==
  /\ reqs[i].route = "list"
  /\ reqs[i].pc = "head"
  /\ LET r == reqs[i]
     IN reqs' = [reqs EXCEPT ![i] = auditMiddleware(
          [r EXCEPT !.pc = "done",
                    !.res = [status |-> 200, success |-> TRUE,
                             webhooks |-> [m \in 1..Len(r.page) |->
                                            WebhookSummary(r.page[m], HeadObject(bucket, r.page[m].key))],
                             truncated |-> r.cursor # Undefined,
                             cursor |-> r.cursor]], i)]
  /\ UNCHANGED <<env, turso, bucket, uuidCount, now, kv>>

\* An entry of the expiring store is gone once its time to live has passed.
Expired(entry, t) == t >= entry.putAt + entry.expirationTtl

\* The key names AUDIT_KV.list({prefix, cursor}) still has to return, in order.
KvListKeys(store, prefix, cursor, t) ==
  Sorted({k \in DOMAIN store : /\ StartsWith(k, prefix)
                               /\ ~Expired(store[k], t)
                               /\ (Truthy(cursor) => StrLess(cursor, k))})

\* AUDIT_KV.get(name) followed by JSON.parse: the entry as JSON.stringify wrote
\* it (strings, numbers and null come back as they went in), or null.
KvGet(store, name, t) ==
  IF name \in DOMAIN store /\ ~Expired(store[name], t)
  THEN [found |-> TRUE, value |-> store[name].value]
  ELSE [found |-> FALSE]

\* new Date(timestamp).getTime() for a timestamp toISOString wrote.
DateParse(iso) ==
  ((CHOOSE d \in 1..Len(Calendar) : Calendar[d] = SubSeq(iso, 1, 10)) - 1) * HoursPerDay
    + DigitsValue(SubSeq(iso, 12, 13), 0)

\* The loop body without the test of the key date against 'from'.
AuditEntryKeptNoLowerDate(r, store, name, t) ==
  LET parts == Split(name, ":")
      keyDate == parts[2]
      got == KvGet(store, name, t)
      statusCodeNum == ParseInt(r.status_code)
  IN /\ Len(parts) >= 3
     /\ ~(Truthy(r.to) /\ StrLess(r.to, keyDate))
     /\ got.found
     /\ ~(Truthy(r.customer_id) /\ got.value.customerId # r.customer_id)
     /\ ~(Truthy(r.status_code)
           /\ (statusCodeNum.nan \/ got.value.statusCode # statusCodeNum.n))

\* The body of listAuditLogs' for loop for one key name: whether its entry is
\* pushed to logs.
AuditEntryKept(r, store, name, t) ==
  LET parts == Split(name, ":")
      keyDate == parts[2]
      got == KvGet(store, name, t)
      statusCodeNum == ParseInt(r.status_code)
  IN /\ Len(parts) >= 3
     /\ ~(Truthy(r.from) /\ StrLess(keyDate, r.from))
     /\ ~(Truthy(r.to) /\ StrLess(r.to, keyDate))
     /\ got.found
     /\ ~(Truthy(r.customer_id) /\ got.value.customerId # r.customer_id)
     /\ ~(Truthy(r.status_code)
           /\ (statusCodeNum.nan \/ got.value.statusCode # statusCodeNum.n))

\* The for loop over one page of key names, from position m, stopping once logs
\* holds limit entries.
RECURSIVE ScanAuditPage(_, _, _, _, _, _, _)
ScanAuditPage(r, store, page, m, logs, limit, t) ==
  IF m > Len(page) THEN logs
  ELSE IF ~AuditEntryKept(r, store, page[m], t)
    THEN ScanAuditPage(r, store, page, m + 1, logs, limit, t)
  ELSE LET pushed == Append(logs, store[page[m]].value)
       IN IF Len(pushed) >= limit THEN pushed
          ELSE ScanAuditPage(r, store, page, m + 1, pushed, limit, t)

\* logs.sort((a, b) => time(b.timestamp) - time(a.timestamp)): newest first,
\* entries of equal time in the order they had.
RECURSIVE SortNewestFirst(_)
SortNewestFirst(logs) ==
  IF Len(logs) = 0 THEN <<>>
  ELSE LET newest == CHOOSE m \in 1..Len(logs) :
                       /\ \A k \in 1..Len(logs) :
                            DateParse(logs[k].timestamp) <= DateParse(logs[m].timestamp)
                       /\ \A k \in 1..(m - 1) :
                            DateParse(logs[k].timestamp) < DateParse(logs[m].timestamp)
       IN <<logs[newest]>> \o
          SortNewestFirst(SubSeq(logs, 1, newest - 1) \o SubSeq(logs, newest + 1, Len(logs)))

\* listAuditLogs: one AUDIT_KV.list call with the gets for its page, taken
\* together; after the last page, the sort and the response.
ListAuditLogs(i) ==
  /\ reqs[i].route = "audit"
  /\ reqs[i].pc = "kvlist"
  /\ LET r == reqs[i]
         limit == EffectiveLimit(r.limit)
         names == KvListKeys(kv, "audit:", r.cursor, now)
     IN IF r.storeFault THEN reqs' = [reqs EXCEPT ![i] = auditMiddleware(InternalError(r), i)]
        ELSE \E n \in PageSizes(names, LIST_LIMIT) :
          LET logs == ScanAuditPage(r, kv, SubSeq(names, 1, n), 1, r.logs, limit, now)
              cursor == IF n = Len(names) THEN Undefined ELSE names[n]
          IN reqs' = [reqs EXCEPT ![i] = auditMiddleware(
               IF Truthy(cursor) /\ Len(logs) < limit
                 THEN [r EXCEPT !.logs = logs, !.cursor = cursor]
               ELSE [r EXCEPT !.pc = "done", !.logs = logs,
                              !.res = [status |-> 200, success |-> TRUE,
                                       logs |-> SubSeq(SortNewestFirst(logs), 1,
                                                       IF Len(logs) < limit THEN Len(logs)
                                                       ELSE limit),
                                       count |-> Len(logs)]], i)]
  /\ UNCHANGED <<env, turso, bucket, uuidCount, now, kv>>

\* GET / (a redirect) and the paths no route matches (the router's 404): only the
\* audit middleware runs around them.
PlainRoute(rs, i) ==
  /\ rs[i].route \notin ManageRoutes \cup {"webhook"}
  /\ rs[i].pc = "start"
  /\ reqs' = [rs EXCEPT ![i] = auditMiddleware(
       [@ EXCEPT !.pc = "done",
                 !.res = IF rs[i].route = "root"
                         THEN [status |-> 302, location |-> "https://www.proficenovky.cz/"]
                         ELSE [status |-> 404, text |-> "404 Not Found"]], i)]
  /\ UNCHANGED <<env, turso, bucket, uuidCount, now, kv>>

\* The lookup found no key, answered as an unhandled fault instead of a 404.
KeyNotFoundAsFault(r) == InternalError(r)

\* if (!key) throw new HTTPException(404, ...)
KeyNotFound(r) == Throw(r, 404, "Webhook not found")

\* The object is gone at the get, answered as an unhandled fault instead of a 404.
ObjectNotFoundAsFault(r) == InternalError(r)

\* if (!object) throw new HTTPException(404, ...)
ObjectNotFound(r) == Throw(r, 404, "Webhook not found")

\* findWebhookKeyById: one bucket.list call and the loop over its page.
FindWebhookKeyById(i) ==
  /\ reqs[i].pc = "scan"
  /\ LET r == reqs[i]
         keys == ListKeys(bucket, Or(r.type, ""), r.cursor)
     IN \E n \in PageSizes(keys, LIST_LIMIT) :
          LET page == SubSeq(keys, 1, n)
              truncated == n < Len(keys)
              key == FirstMatch(page, r.webhookId)
          IN reqs' = [reqs EXCEPT ![i] = auditMiddleware(
               IF r.storeFault THEN InternalError(r)
               ELSE IF key # Undefined
                 THEN [r EXCEPT !.key = key, !.pc = IF r.route = "download" THEN "get" ELSE "del"]
               ELSE IF truncated THEN [r EXCEPT !.cursor = page[n]]
               ELSE KeyNotFound(r), i)]
  /\ UNCHANGED <<env, turso, bucket, uuidCount, now, kv>>

\* downloadWebhook after the lookup: bucket.get and the response.
DownloadWebhook(i) ==
  /\ reqs[i].route = "download"
  /\ reqs[i].pc = "get"
  /\ LET r == reqs[i]
     IN reqs' = [reqs EXCEPT ![i] = auditMiddleware(
          IF r.key \notin DOMAIN bucket THEN ObjectNotFound(r)
          ELSE [r EXCEPT !.pc = "done",
                         !.res = [status |-> 200,
                                  body |-> bucket[r.key].body,
                                  contentType |-> Or(bucket[r.key].httpMetadata.contentType,
                                                     "application/octet-stream"),
                                  xWebhookId |-> Or(bucket[r.key].customMetadata.webhookId, ""),
                                  xReceivedAt |-> Or(bucket[r.key].customMetadata.receivedAt, "")]], i)]
  /\ UNCHANGED <<env, turso, bucket, uuidCount, now, kv>>

\* A delete that leaves the object where it is.
DeleteNothing(b, key) == b

\* R2 delete: the key is removed if it is there; a missing key is no error.
Delete(b, key) == [k \in DOMAIN b \ {key} |-> b[k]]

\* The entry deleteWebhook writes to the delete log at time t.  userAgent is
\* left out.
DeleteLogValue(r, t) ==
  [webhookId |-> r.webhookId,
   deletedKey |-> r.key,
   sourceIp |-> OrNull(ClientIp(r.cfConnectingIp, r.xForwardedFor)),
   timestamp |-> ToISOString(t)]

\* deleteWebhook after the lookup: bucket.delete, which removes the key if it is
\* there, the delete-log put handed to waitUntil, and the response.
DeleteWebhook(i) ==
  /\ reqs[i].route = "delete"
  /\ reqs[i].pc = "del"
  /\ LET r == reqs[i]
         logged == WaitUntilPut(r,
                     "delete:" \o formatDate(now) \o ":" \o NumberToString(now) \o ":" \o r.webhookId,
                     DeleteLogValue(r, now), DELETE_LOG_TTL)
     IN /\ bucket' = Delete(bucket, r.key)
        /\ reqs' = [reqs EXCEPT ![i] = auditMiddleware(
             [logged EXCEPT !.pc = "done",
                            !.res = [status |-> 200, success |-> TRUE,
                                     message |-> "Webhook deleted successfully",
                                     webhookId |-> r.webhookId]], i)]
  /\ UNCHANGED <<env, turso, uuidCount, now, kv>>

\* A rejected background put that reaches the caller as a fault.
CatchPutFailureAsFault(r) == InternalError(r)

\* The .catch of a background put: the error goes to console.error, the request
\* and its response stay as they are.
CatchPutFailure(r) == r

\* A put handed to waitUntil settles: the entry is written.
KvPutDone(i) ==
  /\ \E n \in 1..Len(reqs[i].bg) :
       LET put == reqs[i].bg[n]
           entry == [value |-> put.value, expirationTtl |-> put.expirationTtl, putAt |-> now]
       IN /\ kv' = [k \in DOMAIN kv \cup {put.key} |-> IF k = put.key THEN entry ELSE kv[k]]
          /\ reqs' = [reqs EXCEPT ![i].bg =
               SubSeq(@, 1, n - 1) \o SubSeq(@, n + 1, Len(@))]
  /\ UNCHANGED <<env, turso, bucket, uuidCount, now>>

\* A put handed to waitUntil settles: it is rejected and nothing is written.
KvPutFail(i) ==
  /\ \E n \in 1..Len(reqs[i].bg) :
       reqs' = [reqs EXCEPT ![i] =
         CatchPutFailure([@ EXCEPT !.bg = SubSeq(@, 1, n - 1) \o SubSeq(@, n + 1, Len(@))])]
  /\ UNCHANGED <<env, turso, bucket, uuidCount, now, kv>>

(***************************************************************************)
(* The system: requests arrive, run their handler chain, interleave at the *)
(* store calls of the management handlers; the clock advances.             *)
(***************************************************************************)
MaxReq == 3
MaxTicks == 1

\* One hour before midnight of 2025-01-31.
ClockStart == 31 * HoursPerDay - 1

EmptyKv == [k \in {} |-> Undefined]

\* No row in audit_logs, the scheduled handler has not run.
EmptyTurso == [rows |-> {}, scheduled |-> 0, executed |-> 0]

EmptyBucket == [k \in {} |-> Undefined]

TokensJson ==
  "{\"mpl-zlin\":\"s1\", \"any-shop\":\"s2\", \"txt-shop\":\"Bearer s3\", \"zlin-1\":\"s\"}"

EnvOpen == [ALLOWED_IPS |-> Undefined, CUSTOMER_TOKENS |-> Undefined, S2S_TOKEN |-> Undefined]

EnvGuarded ==
  [ALLOWED_IPS |-> "10.0.0.1, 10.0.0.2", CUSTOMER_TOKENS |-> TokensJson, S2S_TOKEN |-> "m2m"]

\* The requests the system specification receives.
SystemRequests ==
  { Request("webhook", "esl", "mpl-zlin", Undefined, "10.0.0.1", Undefined, "Bearer s1",
            "text/csv", "a,b,c"),
    Request("webhook", "esl", "any-shop", Undefined, Undefined, "10.0.0.2, 10.9.9.9", "s2",
            Undefined, "<x/>"),
    Request("download", "esl", Undefined, Uuid(1), Undefined, Undefined, "m2m",
            Undefined, ""),
    Request("delete", Undefined, Undefined, Uuid(1), Undefined, Undefined, "Bearer m2m",
            Undefined, "") }

\* The request r as it arrives.
Arrived(r) ==
  [r EXCEPT !.known = \E j \in 1..Len(reqs) :
                        /\ reqs[j].route = "webhook"
                        /\ reqs[j].res.status = 200
                        /\ reqs[j].res.webhookId = r.webhookId,
            !.gone = \E j \in 1..Len(reqs) :
                        /\ reqs[j].route = "delete"
                        /\ reqs[j].res.status = 200
                        /\ reqs[j].webhookId = r.webhookId]

\* A webhook request arrives and runs its chain.
ReceiveWebhook ==
  /\ Len(reqs) < MaxReq
  /\ \E r \in SystemRequests : WebhookRoute(Append(reqs, Arrived(r)), Len(reqs) + 1)

\* A management request arrives and runs up to its first store call.
ReceiveManage ==
  /\ Len(reqs) < MaxReq
  /\ \E r \in SystemRequests : ManageStart(Append(reqs, Arrived(r)), Len(reqs) + 1)

Tick ==
  /\ now < ClockStart + MaxTicks
  /\ now' = now + 1
  /\ UNCHANGED <<env, turso, bucket, reqs, uuidCount, kv>>

Init ==
  /\ env = EnvGuarded
  /\ bucket = EmptyBucket
  /\ reqs = <<>>
  /\ uuidCount = 0
  /\ now = ClockStart
  /\ kv = EmptyKv
  /\ turso = EmptyTurso

Next ==
  \/ ReceiveWebhook
  \/ ReceiveManage
  \/ Tick
  \/ \E i \in 1..Len(reqs) : FindWebhookKeyById(i)
  \/ \E i \in 1..Len(reqs) : DownloadWebhook(i)
  \/ \E i \in 1..Len(reqs) : DeleteWebhook(i)

Spec == Init /\ [][Next]_vars

(***************************************************************************)
(* One request, its bindings and its inputs drawn at the start: the guards *)
(* and the ingestion pipeline as functions of their inputs.                *)
(***************************************************************************)
AllowedIpsConfigs == {Undefined, "", "  ", "10.0.0.1, 10.0.0.2 ,", ","}
CfValues == {Undefined, "10.0.0.1", "10.0.0.9"}
XffValues == {Undefined, "10.0.0.2", "10.0.0.2 , 10.0.0.9", "10.0.0.9, 10.0.0.1", ", 10.0.0.1"}

TokenConfigs == {Undefined, "", " ", "{}", "{", TokensJson}
TokenCustomerIds == {"mpl-zlin", "any-shop", "txt-shop", "zlin-1", "nobody", "constructor"}
AuthValues ==
  {Undefined, "s1", "Bearer s1", "s2", "Bearer s2", "s", "s11", "S1", "bearer s1",
   "Bearer s3", "Bearer Bearer s3", "f"}

S2sConfigs == {Undefined, "", " ", "m2m"}
S2sAuthValues == {Undefined, "m2m", "Bearer m2m", "m2n", "m2", "m2mm", "Bearer s1"}

RECURSIVE Repeat(_, _)
Repeat(c, n) == IF n = 0 THEN "" ELSE c \o Repeat(c, n - 1)

TypeValues == {"esl", "ESL", "sap"}
CustomerIdValues ==
  {"mpl-zlin", "txt-shop", "any-shop", "zlin-1", "nobody", "a.b",
   Repeat("a", MaxCustomerIdLen), Repeat("a", MaxCustomerIdLen + 1)}
ContentTypeValues ==
  {Undefined, "text/csv", "Text/CSV ; charset=utf-8", "application/json", "text/plain",
   "text/xml", "image/png", "multipart/form-data; boundary=x", "constructor"}
BodyValues == {"", "a,b,c"}

\* Inputs that vary the IP guard.
IpFamily ==
  { [env |-> [ALLOWED_IPS |-> a, CUSTOMER_TOKENS |-> t, S2S_TOKEN |-> Undefined],
     req |-> Request("webhook", "esl", "mpl-zlin", Undefined, cf, xff, "Bearer s1",
                     "text/csv", "a,b,c")] :
    a \in AllowedIpsConfigs, t \in {Undefined, TokensJson}, cf \in CfValues, xff \in XffValues }

\* Inputs that vary the per-customer token guard.
TokenFamily ==
  { [env |-> [ALLOWED_IPS |-> a, CUSTOMER_TOKENS |-> t, S2S_TOKEN |-> "m2m"],
     req |-> Request("webhook", "esl", c, Undefined, "10.0.0.1", Undefined, h,
                     "text/csv", "a,b,c")] :
    a \in {Undefined, "10.0.0.1", "10.0.0.2"}, t \in TokenConfigs, c \in TokenCustomerIds,
    h \in AuthValues }

\* Inputs that vary the S2S guard.
S2sFamily ==
  { [env |-> [ALLOWED_IPS |-> a, CUSTOMER_TOKENS |-> t, S2S_TOKEN |-> s],
     req |-> Request(route, Undefined, Undefined, Uuid(1), Undefined, Undefined, h,
                     Undefined, "")] :
    a \in {Undefined, "10.0.0.1"}, t \in {Undefined, TokensJson}, s \in S2sConfigs,
    h \in S2sAuthValues, route \in ManageRoutes }

LimitValues == {Undefined, "", "0", "-3", "1", "2", "1000", "1001", "abc", "2x"}

\* Inputs that vary the webhook listing.
ListFamily ==
  { [env |-> EnvGuarded,
     req |-> WithQuery(Request("list", q[1], q[2], Undefined, Undefined, Undefined, "m2m",
                               Undefined, ""),
                       q[3], l, Undefined, Undefined, Undefined, Undefined, f)] :
    q \in {<<Undefined, Undefined, Undefined>>, <<"esl", Undefined, Undefined>>,
           <<"esl", "mpl-zlin", "2025-01-31">>, <<"sap", Undefined, Undefined>>,
           <<"esl", "mpl", Undefined>>,
           <<"esl", "mpl-zlin", "31.1.2025">>},
    l \in LimitValues, f \in BOOLEAN }

\* Inputs that vary the audit listing.
AuditListFamily ==
  { [env |-> EnvGuarded,
     req |-> WithQuery(Request("audit", Undefined, q[1], Undefined, Undefined, Undefined,
                               "Bearer m2m", Undefined, ""),
                       Undefined, l, Undefined, q[2], q[3], q[4], f)] :
    q \in {<<Undefined, Undefined, Undefined, Undefined>>,
           <<"mpl-zlin", Undefined, Undefined, "200">>,
           <<Undefined, "2025-01-31", "2025-01-31", Undefined>>,
           <<Undefined, "1.2.2025", Undefined, Undefined>>,
           <<Undefined, Undefined, "2025-2-1", Undefined>>},
    l \in LimitValues, f \in BOOLEAN }

\* Requests to GET / and to a path without a route.
PlainFamily ==
  { [env |-> e,
     req |-> Request(route, Undefined, Undefined, Undefined, "10.0.0.9", Undefined, Undefined,
                     Undefined, "")] :
    e \in {EnvOpen, EnvGuarded}, route \in {"root", "nope"} }

\* Inputs that vary the ingestion pipeline.
IngestFamily ==
  { [env |-> e,
     req |-> Request("webhook", ty, c, Undefined, "10.0.0.1", Undefined, "Bearer s1", ct, b)] :
    e \in {EnvOpen, EnvGuarded}, ty \in TypeValues, c \in CustomerIdValues,
    ct \in ContentTypeValues, b \in BodyValues }

\* A bucket holding the object of one earlier ingestion.
SeedBucket ==
  Put(EmptyBucket,
      handleWebhook(Request("webhook", "esl", "mpl-zlin", Undefined, "10.0.0.1", Undefined,
                            "Bearer s1", "text/csv", "a,b,c"),
                    Uuid(1), ClockStart).object)

\* A bucket holding the objects of two earlier ingestions.
SeedBucket2 ==
  Put(SeedBucket,
      handleWebhook(Request("webhook", "esl", "any-shop", Undefined, Undefined,
                            "10.0.0.2, 10.9.9.9", "s2", Undefined, "<x/>"),
                    Uuid(2), ClockStart).object)

\* The answered request r, for the audit entries of earlier requests.
AnsweredWith(r, status, errorMessage, webhookId) ==
  [r EXCEPT !.pc = "done", !.res = [status |-> status],
            !.auditErrorMessage = errorMessage, !.auditWebhookId = webhookId]

\* An audit store holding the entries of three earlier requests: an ingestion
\* and a rejected ingestion of the same hour, and a download of the day before.
SeedKv ==
  LET Entry(r, t) == [value |-> AuditValue(r, t), expirationTtl |-> AUDIT_TTL, putAt |-> t]
      ingest == AnsweredWith(Request("webhook", "esl", "mpl-zlin", Undefined, "10.0.0.1",
                                     Undefined, "Bearer s1", "text/csv", "a,b,c"),
                             200, Undefined, Uuid(1))
      denied == AnsweredWith(Request("webhook", "esl", "any-shop", Undefined, "10.0.0.1",
                                     Undefined, Undefined, "text/csv", "a,b,c"),
                             401, Undefined, Undefined)
      download == AnsweredWith(Request("download", Undefined, Undefined, Uuid(2), Undefined,
                                       Undefined, "m2m", Undefined, ""),
                               404, "Webhook not found", Undefined)
  IN (AuditKey(ClockStart, 7) :> Entry(ingest, ClockStart))
     @@ (AuditKey(ClockStart, 8) :> Entry(denied, ClockStart))
     @@ (AuditKey(ClockStart - HoursPerDay, 9) :> Entry(download, ClockStart - HoursPerDay))

\* The stores a single request may find.
BucketsFor(r) ==
  CASE r.route = "list" -> {SeedBucket, SeedBucket2}
    [] r.route \in {"download", "delete"} -> {EmptyBucket, SeedBucket}
    [] OTHER -> {EmptyBucket}

KvsFor(r) == IF r.route = "audit" THEN {EmptyKv, SeedKv} ELSE {EmptyKv}

InitRequest ==
  /\ \E x \in IpFamily \cup TokenFamily \cup S2sFamily \cup IngestFamily
              \cup ListFamily \cup AuditListFamily \cup PlainFamily :
       /\ env = x.env
       /\ reqs = <<x.req>>
       /\ bucket \in BucketsFor(x.req)
       /\ kv \in KvsFor(x.req)
  /\ uuidCount = Cardinality(DOMAIN bucket)
  /\ now \in ClockStart..(ClockStart + MaxTicks)
  /\ turso = EmptyTurso

NextRequest ==
  \/ WebhookRoute(reqs, 1)
  \/ ManageStart(reqs, 1)
  \/ PlainRoute(reqs, 1)
  \/ FindWebhookKeyById(1)
  \/ ListWebhooks(1)
  \/ HeadWebhooks(1)
  \/ ListAuditLogs(1)
  \/ DownloadWebhook(1)
  \/ DeleteWebhook(1)
  \/ KvPutDone(1)
  \/ KvPutFail(1)

SpecRequest == InitRequest /\ [][NextRequest]_vars

(***************************************************************************)
(* Properties                                                              *)
(***************************************************************************)
Requests == 1..Len(reqs)

Answered(i) == reqs[i].pc = "done"

Passed(i, step) == Includes(reqs[i].passed, step)

IsError(i, status, code) == reqs[i].res.status = status /\ reqs[i].res.code = code

\* The steps of POST /webhook in the order the route runs them.
IngestSteps == <<"ip", "token", "type", "customer_id", "customer", "format", "body">>

\* A binding that is absent, empty or made of white space only.
Blank(v) == v = Undefined \/ CharsOf(v) \subseteq WhiteSpace

\* The base media type of a header value: parameters stripped, trimmed, lower-cased.
MediaType(contentType) ==
  LET semi == IndexOf(contentType, ";")
  IN ToLowerCase(Trim(IF semi = 0 THEN contentType ELSE SubSeq(contentType, 1, semi - 1)))

\* The customer a path identifier stands for: by id first, then by outlet alias.
Resolves(customerId) ==
  \E n \in 1..Len(Customers) :
    Customers[n].id = customerId \/ Includes(Customers[n].outlets, customerId)

PolicyOf(customerId) ==
  IF \E n \in 1..Len(Customers) : Customers[n].id = customerId
    THEN Customers[CHOOSE n \in 1..Len(Customers) : Customers[n].id = customerId]
    ELSE Customers[CHOOSE n \in 1..Len(Customers) : Includes(Customers[n].outlets, customerId)]

FormatAccepted(customerId, contentType) ==
  \/ PolicyOf(customerId).data_format = "all"
  \/ /\ contentType # Undefined
     /\ MediaType(contentType) \in DOMAIN CONTENT_TYPE_TO_FORMAT
     /\ CONTENT_TYPE_TO_FORMAT[MediaType(contentType)] = PolicyOf(customerId).data_format

SyntaxOk(customerId) ==
  /\ Len(customerId) \in 1..64
  /\ \A n \in 1..Len(customerId) :
       CharAt(customerId, n) \in CharsOf(LowerCase \o UpperCase \o Digits \o "_-")

\* What each step of the route requires of request i.
StepHolds(i, step) ==
  LET r == reqs[i]
  IN CASE step = "ip" ->
            ipValidation(env.ALLOWED_IPS, r.cfConnectingIp, r.xForwardedFor) = NoResponse
       [] step = "token" ->
            tokenAuthentication(env.CUSTOMER_TOKENS, r.customer_id, r.authorization) = NoResponse
       [] step = "type" -> r.type = "esl"
       [] step = "customer_id" -> SyntaxOk(r.customer_id)
       [] step = "customer" -> Resolves(r.customer_id)
       [] step = "format" -> FormatAccepted(r.customer_id, r.contentType)
       [] step = "body" -> r.body # ""

\* How many steps request i gets through when they are taken in order.
StepsHeld(i) ==
  IF \A n \in 1..Len(IngestSteps) : StepHolds(i, IngestSteps[n]) THEN Len(IngestSteps)
  ELSE (CHOOSE n \in 1..Len(IngestSteps) :
          /\ ~StepHolds(i, IngestSteps[n])
          /\ \A m \in 1..(n - 1) : StepHolds(i, IngestSteps[m])) - 1

\* Request i is a webhook request answered in this step without having got
\* through every step.
StoppedNow(i) ==
  /\ reqs'[i].route = "webhook"
  /\ reqs'[i].pc = "done"
  /\ (i > Len(reqs) \/ reqs[i].pc # "done")
  /\ reqs'[i].passed # IngestSteps

\* C1: every stored object was written by a webhook request that got through the
\* IP guard, the token guard, the type check, the customer-id syntax check, the
\* policy resolution, the format check and the non-empty-body check, in this
\* order; a request stopped at any of them writes nothing to the store.
C1_StoredOnlyAfterEveryStep ==
  /\ [](\A i \in Requests :
          reqs[i].route = "webhook" /\ Answered(i) =>
            /\ reqs[i].passed = SubSeq(IngestSteps, 1, StepsHeld(i))
            /\ StepsHeld(i) < Len(IngestSteps) =>
                 /\ reqs[i].res.status \in {400, 401, 403, 404, 415, 500}
                 /\ reqs[i].auditWebhookId = Undefined)
  /\ [][\A k \in DOMAIN bucket' \ DOMAIN bucket :
          \E i \in 1..Len(reqs') :
            /\ reqs'[i].route = "webhook"
            /\ reqs'[i].res.status = 200
            /\ reqs'[i].res.storagePath = k
            /\ reqs'[i].passed = IngestSteps]_vars
  /\ [][\A i \in 1..Len(reqs') : StoppedNow(i) => bucket' = bucket]_vars

C1_Witness ==
  \E i \in Requests :
    /\ reqs[i].route = "webhook"
    /\ reqs[i].res.status = 200
    /\ env = EnvGuarded
    /\ reqs[i].res.storagePath \in DOMAIN bucket

\* The ingestion request w was answered with success.
Ingested(w) == reqs[w].route = "webhook" /\ reqs[w].res.status = 200

\* A delete request has removed the object of identifier id.
Deleted(id) ==
  \E x \in Requests :
    /\ reqs[x].route = "delete"
    /\ reqs[x].webhookId = id
    /\ reqs[x].res.status = 200

\* A download, admitted by the S2S guard, of an identifier an ingestion had
\* returned before the download arrived.
LaterDownload(d, w) ==
  /\ Ingested(w)
  /\ reqs[d].route = "download"
  /\ reqs[d].webhookId = reqs[w].res.webhookId
  /\ reqs[d].known
  /\ Answered(d)
  /\ Passed(d, "s2s")

\* C2: round trip.  A download of an identifier returned by an earlier successful
\* ingestion, the object not having been deleted, answers with exactly the bytes
\* and the content type of that ingestion, whatever else is stored and however
\* many listing pages the lookup goes through.
C2_RoundTrip ==
  \A d \in Requests : \A w \in Requests :
    LaterDownload(d, w) /\ ~Deleted(reqs[w].res.webhookId) =>
      /\ reqs[d].res.status = 200
      /\ reqs[d].res.body = reqs[w].body
      /\ Truthy(reqs[w].contentType) => reqs[d].res.contentType = reqs[w].contentType
      /\ reqs[d].res.xWebhookId = reqs[w].res.webhookId

\* A download answered after a lookup that went past the first listing page,
\* with another object stored beside the one asked for.
C2_Witness ==
  \E d \in Requests : \E w \in Requests :
    /\ LaterDownload(d, w)
    /\ ~Deleted(reqs[w].res.webhookId)
    /\ Truthy(reqs[w].contentType)
    /\ reqs[d].cursor # Undefined
    /\ Cardinality(DOMAIN bucket) >= 2
    /\ reqs[d].res.status = 200

\* The extension the content-type table gives a header value.
TableExtension(contentType) ==
  IF contentType = Undefined THEN "bin"
  ELSE IF MediaType(contentType) \in DOMAIN CONTENT_TYPE_EXTENSIONS
    THEN CONTENT_TYPE_EXTENSIONS[MediaType(contentType)]
  ELSE "bin"

\* C3: a successful ingestion returns as storagePath the key it wrote, and the key
\* is {type}/{customerId}/{date}/{webhookId}.{ext}: the route parameters, the UTC
\* date of the call, the returned identifier, and the table's extension for the
\* base media type (bin when the type is unrecognized or absent).
C3_StorageKey ==
  \A i \in Requests :
    Ingested(i) =>
      LET r == reqs[i]
      IN /\ r.res.storagePath \in DOMAIN bucket
         /\ bucket[r.res.storagePath].customMetadata.webhookId = r.res.webhookId
         /\ bucket[r.res.storagePath].body = r.body
         /\ r.res.storagePath =
              Join(<<r.type, r.customer_id, Calendar[(r.receivedAt \div 24) + 1],
                     r.res.webhookId \o "." \o TableExtension(r.contentType)>>, "/")

\* A request with a valid type and a customer id that is well formed and known,
\* let through by both guards.
ValidPair(i) ==
  /\ reqs[i].route = "webhook"
  /\ Answered(i)
  /\ Passed(i, "ip") /\ Passed(i, "token")
  /\ reqs[i].type = "esl"
  /\ SyntaxOk(reqs[i].customer_id)
  /\ Resolves(reqs[i].customer_id)

\* C4, as claimed: a zero-length body with a valid (type, customerId) is answered
\* 400 and writes nothing, whatever the content type.
C4_EmptyBodyAlways400 ==
  \A i \in Requests :
    ValidPair(i) /\ reqs[i].body = "" =>
      reqs[i].res.status = 400 /\ DOMAIN bucket = {}

\* C4, amended: a zero-length body with a valid (type, customerId) is answered 400
\* when the content type passes the customer's format policy and 415 when it does
\* not; in both cases nothing is written and no identifier is drawn.
C4_EmptyBodyRejected ==
  \A i \in Requests :
    ValidPair(i) /\ reqs[i].body = "" =>
      /\ reqs[i].res.status =
           IF FormatAccepted(reqs[i].customer_id, reqs[i].contentType) THEN 400 ELSE 415
      /\ DOMAIN bucket = {}
      /\ uuidCount = 0
      /\ reqs[i].auditWebhookId = Undefined

C4_Witness ==
  \E i \in Requests :
    /\ ValidPair(i)
    /\ reqs[i].body = ""
    /\ reqs[i].customer_id = "mpl-zlin"
    /\ reqs[i].contentType = "text/csv"
    /\ reqs[i].res.status = 400

\* C5: format policy.  A customer accepting "all" is never answered 415; for any
\* other accepted format f the request passes the format step exactly when its
\* base media type maps to f in the content-type-to-format table, and is
\* otherwise answered 415 with nothing written.
C5_FormatPolicy ==
  \A i \in Requests :
    reqs[i].route = "webhook" /\ Answered(i) /\ Passed(i, "customer") =>
      LET f == PolicyOf(reqs[i].customer_id).data_format
          maps == /\ reqs[i].contentType # Undefined
                  /\ MediaType(reqs[i].contentType) \in DOMAIN CONTENT_TYPE_TO_FORMAT
                  /\ CONTENT_TYPE_TO_FORMAT[MediaType(reqs[i].contentType)] = f
      IN /\ f = "all" => reqs[i].res.status # 415 /\ Passed(i, "format")
         /\ f # "all" => (Passed(i, "format") <=> maps)
         /\ ~Passed(i, "format") =>
              /\ reqs[i].res.status = 415
              /\ DOMAIN bucket = {}

\* A csv customer's request with a content type written in capitals and with a
\* parameter gets through the format step.
C5_Witness ==
  \E i \in Requests :
    /\ reqs[i].customer_id = "zlin-1"
    /\ reqs[i].contentType = "Text/CSV ; charset=utf-8"
    /\ Passed(i, "format")
    /\ reqs[i].res.status = 200

\* The per-customer token guard is switched on and its map is well formed.
TokenGuardActive == ~Blank(env.CUSTOMER_TOKENS) /\ JsonParse(env.CUSTOMER_TOKENS).ok

\* The tokens configured, customer id -> token.
ConfiguredTokens == JsonParse(env.CUSTOMER_TOKENS).value

\* Request i is a webhook request the token guard has decided on.
TokenGuardRan(i) ==
  /\ reqs[i].route = "webhook"
  /\ Answered(i)
  /\ Passed(i, "ip")
  /\ TokenGuardActive

\* C6: with a token T configured for the customer id of the path, the token guard
\* lets the request through exactly when its Authorization header is T or
\* "Bearer " followed by T; any other header value, of the same length as T or
\* not, is answered 401 with code 4012.
C6_TokenAcceptedExactly ==
  \A i \in Requests :
    /\ TokenGuardRan(i)
    /\ reqs[i].customer_id \in DOMAIN ConfiguredTokens
    /\ reqs[i].authorization # Undefined
    => LET T == ConfiguredTokens[reqs[i].customer_id]
       IN IF reqs[i].authorization \in {T, "Bearer " \o T}
          THEN Passed(i, "token")
          ELSE ~Passed(i, "token") /\ IsError(i, 401, 4012)

\* C7: the token guard's answers, in order: no token configured for the customer
\* id gives 403 with code 4033; a configured token and no Authorization header
\* gives 401 with code 4011; a configured token and a header that does not carry
\* it gives 401 with code 4012.
C7_TokenGuardOrder ==
  \A i \in Requests :
    TokenGuardRan(i) =>
      IF reqs[i].customer_id \notin DOMAIN ConfiguredTokens
        THEN IsError(i, 403, 4033)
      ELSE IF reqs[i].authorization = Undefined
        THEN IsError(i, 401, 4011)
      ELSE Passed(i, "token") \/ IsError(i, 401, 4012)

\* C8: a guard whose binding is absent, empty or white space lets every request
\* through, whatever its headers and whatever the other two bindings are.
C8_FailOpen ==
  \A i \in Requests :
    Answered(i) =>
      /\ reqs[i].route = "webhook" /\ Blank(env.ALLOWED_IPS) => Passed(i, "ip")
      /\ reqs[i].route = "webhook" /\ Passed(i, "ip") /\ Blank(env.CUSTOMER_TOKENS)
           => Passed(i, "token")
      /\ reqs[i].route \in ManageRoutes /\ Blank(env.S2S_TOKEN) => Passed(i, "s2s")

\* A request without any address header and without Authorization gets through
\* both webhook guards, their bindings being white space and empty, while the S2S
\* token is set.
C8_Witness ==
  \E i \in Requests :
    /\ reqs[i].route = "webhook"
    /\ env.ALLOWED_IPS = "  "
    /\ env.CUSTOMER_TOKENS = Undefined
    /\ reqs[i].cfConnectingIp = Undefined
    /\ reqs[i].xForwardedFor = Undefined
    /\ Passed(i, "ip")
    /\ Passed(i, "token")

\* C9: with no customer token configured (CUSTOMER_TOKENS the empty string, or a
\* JSON object without entries) every webhook request gets through the token guard.
C9_EmptyMapDisables ==
  \A i \in Requests :
    /\ reqs[i].route = "webhook"
    /\ Answered(i)
    /\ Passed(i, "ip")
    /\ \/ env.CUSTOMER_TOKENS = ""
       \/ /\ env.CUSTOMER_TOKENS # Undefined
          /\ JsonParse(env.CUSTOMER_TOKENS).ok
          /\ DOMAIN JsonParse(env.CUSTOMER_TOKENS).value = {}
    => Passed(i, "token")

\* The client address of request i: CF-Connecting-IP when present, else the first
\* entry of X-Forwarded-For, trimmed; undefined when neither yields one.
ResolvedIp(i) ==
  LET r == reqs[i]
      comma == IndexOf(r.xForwardedFor, ",")
      first == IF comma = 0 THEN r.xForwardedFor ELSE SubSeq(r.xForwardedFor, 1, comma - 1)
  IN IF r.cfConnectingIp # Undefined THEN r.cfConnectingIp
     ELSE IF r.xForwardedFor # Undefined /\ Trim(first) # "" THEN Trim(first)
     ELSE Undefined

\* The trimmed, non-empty entries of the allow-list.
AllowList ==
  LET entries == Split(env.ALLOWED_IPS, ",")
  IN {Trim(entries[n]) : n \in 1..Len(entries)} \ {""}

\* C10: with a non-empty allow-list a webhook request gets through the IP guard
\* exactly when its resolved client address is an entry of the list; without a
\* resolvable address it is answered 403 with code 4031, with an address that is
\* no entry 403 with code 4032.
C10_IpAllowList ==
  \A i \in Requests :
    reqs[i].route = "webhook" /\ Answered(i) /\ ~Blank(env.ALLOWED_IPS) =>
      /\ Passed(i, "ip") <=> (ResolvedIp(i) # Undefined /\ ResolvedIp(i) \in AllowList)
      /\ ResolvedIp(i) = Undefined => IsError(i, 403, 4031)
      /\ ResolvedIp(i) # Undefined /\ ResolvedIp(i) \notin AllowList => IsError(i, 403, 4032)

\* A request with no CF-Connecting-IP whose first forwarded-for entry, once
\* trimmed, is on the list gets through.
C10_Witness ==
  \E i \in Requests :
    /\ reqs[i].route = "webhook"
    /\ env.ALLOWED_IPS = "10.0.0.1, 10.0.0.2 ,"
    /\ reqs[i].cfConnectingIp = Undefined
    /\ reqs[i].xForwardedFor = "10.0.0.2 , 10.0.0.9"
    /\ Passed(i, "ip")

\* Request i is a management request answered while an S2S token is configured.
S2sGuardRan(i) ==
  /\ reqs[i].route \in ManageRoutes
  /\ Answered(i)
  /\ ~Blank(env.S2S_TOKEN)

\* The puts request i has handed to waitUntil that have not settled.
PendingPuts(i) == {reqs[i].bg[n] : n \in 1..Len(reqs[i].bg)}

\* Request i never got to a handler: it passed no guard, made no store call and
\* handed over no write but its audit entry.
NoHandlerRan(i) ==
  /\ reqs[i].passed = <<>>
  /\ reqs[i].key = Undefined
  /\ reqs[i].page = <<>>
  /\ reqs[i].logs = <<>>
  /\ reqs[i].issued <= 1
  /\ \A p \in PendingPuts(i) : StartsWith(p.key, "audit:")
  /\ ~(\E field \in {"body", "customers", "webhooks", "logs", "success"} :
         field \in DOMAIN reqs[i].res)

\* Request i is a management request answered in this step by the S2S guard.
S2sRejectedNow(i) ==
  /\ reqs'[i].route \in ManageRoutes
  /\ reqs'[i].pc = "done"
  /\ (i > Len(reqs) \/ reqs[i].pc # "done")
  /\ reqs'[i].passed = <<>>

\* C11: with an S2S token configured, a management request (list customers, list
\* webhooks, download, delete, list audit) without Authorization header is
\* answered 401 with code 4011, one whose header is neither the token nor
\* "Bearer " followed by it 401 with code 4012; for neither does a handler run,
\* the blob store stays as it is and nothing is written to the delete log.  The
\* IP allow-list and the customer tokens have no say: a request carrying the
\* token gets through whatever they are.
C11_S2sGuardsManagement ==
  /\ [](\A i \in Requests :
          S2sGuardRan(i) =>
            LET h == reqs[i].authorization
                T == env.S2S_TOKEN
            IN /\ h = Undefined => IsError(i, 401, 4011) /\ NoHandlerRan(i)
               /\ h # Undefined /\ h \notin {T, "Bearer " \o T} =>
                    IsError(i, 401, 4012) /\ NoHandlerRan(i)
               /\ h = "Bearer " \o T => Passed(i, "s2s"))
  /\ [][\A i \in 1..Len(reqs') : S2sRejectedNow(i) => bucket' = bucket /\ kv' = kv]_vars

\* A delete of a stored object with a wrong token: answered 401, the object
\* still there.
C11_Witness ==
  \E i \in Requests :
    /\ reqs[i].route = "delete"
    /\ env.S2S_TOKEN = "m2m"
    /\ reqs[i].authorization = "m2n"
    /\ IsError(i, 401, 4012)
    /\ bucket = SeedBucket

\* No ingestion has answered with the identifier id.
NeverStored(id) == ~(\E w \in Requests : Ingested(w) /\ reqs[w].res.webhookId = id)

\* Request d is a delete, let through by the S2S guard and answered, of an
\* identifier that was never stored or that an earlier delete had removed when d
\* arrived.
DeleteOfAbsent(d) ==
  /\ reqs[d].route = "delete"
  /\ Answered(d)
  /\ Passed(d, "s2s")
  /\ ~reqs[d].storeFault
  /\ NeverStored(reqs[d].webhookId) \/ reqs[d].gone

\* Request i is answered in this step with status 404.
NotFoundNow(i) ==
  /\ reqs'[i].pc = "done"
  /\ (i > Len(reqs) \/ reqs[i].pc # "done")
  /\ reqs'[i].res.status = 404

\* C12: a delete of an identifier that was never stored, or that an earlier
\* delete request has already removed, is answered 404 (not 500); it resolves no
\* key, so it calls no storage delete, hands no entry to the delete log, and the
\* step that answers it leaves the blob store unchanged.
C12_DeleteOfAbsentIs404 ==
  /\ [](\A d \in Requests :
          DeleteOfAbsent(d) =>
            /\ IsError(d, 404, 404)
            /\ reqs[d].key = Undefined
            /\ reqs[d].issued = 1
            /\ \A p \in PendingPuts(d) : StartsWith(p.key, "audit:"))
  /\ [][\A i \in 1..Len(reqs') : NotFoundNow(i) => bucket' = bucket /\ kv' = kv]_vars

\* A second delete of an identifier, arrived after the first one had answered
\* with success, answered 404.
C12_Witness ==
  \E d \in Requests :
    /\ DeleteOfAbsent(d)
    /\ reqs[d].gone
    /\ reqs[d].res.status = 404

\* C13: when two delete requests for one identifier both resolve the key before
\* either deletes, at most one of them answers with success and the other one
\* answers 404.
C13_OneDeleteSucceeds ==
  \A x \in Requests : \A y \in Requests :
    /\ x # y
    /\ reqs[x].route = "delete" /\ reqs[y].route = "delete"
    /\ reqs[x].webhookId = reqs[y].webhookId
    /\ reqs[x].key # Undefined /\ reqs[y].key # Undefined
    /\ Answered(x) /\ Answered(y)
    => /\ ~(reqs[x].res.status = 200 /\ reqs[y].res.status = 200)
       /\ reqs[x].res.status = 404 \/ reqs[y].res.status = 404

\* Request i is a download that has resolved its key and fetches in this step,
\* the object being gone.
FetchesGoneNow(i) ==
  /\ reqs[i].route = "download"
  /\ reqs[i].pc = "get"
  /\ reqs[i].key \notin DOMAIN bucket
  /\ reqs'[i].pc = "done"

\* C14: a download that has resolved the storage key and fetches after a
\* concurrent delete removed the object answers 404; no download answers 500, and
\* one that answers with success carries the whole payload of the ingestion.
C14_DownloadAfterDeleteIs404 ==
  /\ [][\A i \in Requests : FetchesGoneNow(i) => reqs'[i].res = ErrorJson(404, 404, "Webhook not found")]_vars
  /\ [](\A d \in Requests :
          reqs[d].route = "download" /\ Answered(d) /\ ~reqs[d].storeFault =>
            /\ reqs[d].res.status \in {200, 400, 401, 404}
            /\ reqs[d].res.status = 200 =>
                 \E w \in Requests :
                   /\ Ingested(w)
                   /\ reqs[w].res.webhookId = reqs[d].webhookId
                   /\ reqs[d].res.body = reqs[w].body
                   /\ reqs[d].res.body # "")

\* A download answered 404 after it had resolved the key.
C14_Witness ==
  \E d \in Requests :
    /\ reqs[d].route = "download"
    /\ reqs[d].key # Undefined
    /\ reqs[d].res.status = 404

\* The limit a listing is to honour for the query value str: 100 when the
\* parameter is absent, else the integer written by str brought into 1..1000.
ClampedLimit(str) ==
  IF str = Undefined THEN 100
  ELSE LET n == ParseInt(str).n
       IN IF n < 1 THEN 1 ELSE IF n > 1000 THEN 1000 ELSE n

\* The query value str is absent or writes an integer in decimal.
IsIntegerOrAbsent(str) ==
  \/ str = Undefined
  \/ /\ ~ParseInt(str).nan
     /\ LET n == ParseInt(str).n
        IN str = (IF n < 0 THEN "-" \o NumberToString(0 - n) ELSE NumberToString(n))

\* C15: a webhook listing and an audit listing return at most as many entries
\* as the limit asked for brought into 1..1000 (a limit below 1, zero included,
\* counting as 1), and at most 100 when no limit is given.
C15_LimitClamped ==
  \A i \in Requests :
    /\ reqs[i].route \in {"list", "audit"}
    /\ Answered(i)
    /\ reqs[i].res.status = 200
    /\ IsIntegerOrAbsent(reqs[i].limit)
    => IF reqs[i].route = "list"
         THEN Len(reqs[i].res.webhooks) <= ClampedLimit(reqs[i].limit)
         ELSE Len(reqs[i].res.logs) <= ClampedLimit(reqs[i].limit)

\* The keys of the audit entries the store holds for request i.
AuditEntriesOf(store, i) ==
  {k \in DOMAIN store : StartsWith(k, "audit:") /\ Split(k, ":")[4] = AuditUuid(i)}

\* The audit writes of request i that have not settled.
PendingAuditPuts(i) == {p \in PendingPuts(i) : StartsWith(p.key, "audit:")}

\* The entry the middleware writes for the answered request i describes it.
DescribesRequest(value, i) ==
  /\ value.method = Method(reqs[i])
  /\ value.path = Path(reqs[i])
  /\ value.statusCode = reqs[i].res.status

\* The audit write of request i settles in this step and the store takes it.
AuditRecordedNow(i) ==
  /\ \E p \in PendingAuditPuts(i) : \A n \in 1..Len(reqs'[i].bg) : reqs'[i].bg[n] # p
  /\ kv' # kv

\* C16: every request other than one to the audit listing gets one audit write,
\* handed over when its response is produced, whatever the response is; the
\* store never holds more than one entry for a request, holds exactly one, for
\* that request, once the write has settled in it, and neither a write nor an
\* entry ever exists for a request to the audit listing.
C16_OneAuditEntry ==
  /\ [](\A i \in Requests :
          /\ Cardinality(AuditEntriesOf(kv, i)) + Cardinality(PendingAuditPuts(i)) <= 1
          /\ \A k \in AuditEntriesOf(kv, i) : DescribesRequest(kv[k].value, i)
          /\ \A p \in PendingAuditPuts(i) : DescribesRequest(p.value, i)
          /\ ~Answered(i) => reqs[i].issued = 0
          /\ Answered(i) /\ reqs[i].route = "audit" =>
               reqs[i].issued = 0 /\ AuditEntriesOf(kv, i) = {}
          /\ Answered(i) /\ reqs[i].route \notin {"audit", "delete"} => reqs[i].issued = 1
          /\ Answered(i) /\ reqs[i].route = "delete" =>
               reqs[i].issued = (IF reqs[i].res.status = 200 THEN 2 ELSE 1))
  /\ [][\A i \in Requests :
          /\ ~Answered(i) /\ reqs'[i].pc = "done" /\ reqs[i].route # "audit" =>
               Cardinality({n \in 1..Len(reqs'[i].bg) :
                              StartsWith(reqs'[i].bg[n].key, "audit:")}) = 1
          /\ AuditRecordedNow(i) => Cardinality(AuditEntriesOf(kv', i)) = 1]_vars

\* A request answered by an unhandled fault whose audit entry is in the store.
C16_Witness ==
  \E i \in Requests :
    /\ Answered(i)
    /\ reqs[i].res.status = 500
    /\ reqs[i].bg = <<>>
    /\ \E k \in AuditEntriesOf(kv, i) : kv[k].value.statusCode = 500

\* A background write of request i settles in this step without the store
\* taking it.
PutFailedNow(i) ==
  /\ Len(reqs'[i].bg) < Len(reqs[i].bg)
  /\ kv' = kv

\* C17: once a request is answered its response stays what it is however its
\* audit write and, for a delete, its delete-log write settle; a write that
\* fails is not issued again, and the store is no different for it.
C17_WriteFailureIsolated ==
  /\ [][\A i \in Requests :
          /\ Answered(i) => /\ reqs'[i].res = reqs[i].res
                            /\ reqs'[i].pc = "done"
                            /\ reqs'[i].issued = reqs[i].issued
          /\ PutFailedNow(i) => /\ Len(reqs'[i].bg) = Len(reqs[i].bg) - 1
                                /\ PendingPuts(i) \ {reqs'[i].bg[n] : n \in 1..Len(reqs'[i].bg)} # {}
                                /\ bucket' = bucket]_vars
  /\ [](\A i \in Requests : Len(reqs[i].bg) <= reqs[i].issued /\ reqs[i].issued <= 2)

\* A delete answered with success whose audit write and delete-log write have
\* both failed.
C17_Witness ==
  \E i \in Requests :
    /\ reqs[i].route = "delete"
    /\ reqs[i].res.status = 200
    /\ reqs[i].res.success
    /\ reqs[i].issued = 2
    /\ reqs[i].bg = <<>>
    /\ DOMAIN kv = {}

\* Request i is an ingestion answered in this step.
IngestionAnsweredNow(i) ==
  /\ reqs[i].route = "webhook"
  /\ reqs[i].pc # "done"
  /\ reqs'[i].pc = "done"

\* C18: an ingestion is answered only once its blob write has completed or
\* failed: at the step that returns a success response the object is in the
\* store under the returned storagePath, with the request's payload, and at the
\* step that returns an error no object has been added.  No audit write exists
\* before the response does; it is issued with it and may still be pending
\* afterwards.
C18_StoredBeforeAnswered ==
  /\ [][\A i \in Requests :
          IngestionAnsweredNow(i) =>
            IF reqs'[i].res.status = 200
              THEN /\ reqs'[i].res.storagePath \in DOMAIN bucket'
                   /\ reqs'[i].res.storagePath \notin DOMAIN bucket
                   /\ bucket'[reqs'[i].res.storagePath].body = reqs[i].body
                   /\ bucket'[reqs'[i].res.storagePath].customMetadata.webhookId
                        = reqs'[i].res.webhookId
              ELSE bucket' = bucket]_vars
  /\ [](\A i \in Requests :
          /\ ~Answered(i) => reqs[i].bg = <<>> /\ reqs[i].issued = 0
          /\ reqs[i].route = "webhook" /\ Answered(i) => reqs[i].issued = 1)

\* An ingestion answered with success, the object stored, the audit write still
\* pending.
C18_Witness ==
  \E i \in Requests :
    /\ Ingested(i)
    /\ reqs[i].res.storagePath \in DOMAIN bucket
    /\ PendingAuditPuts(i) # {}
    /\ AuditEntriesOf(kv, i) = {}

\* Request i is an ingestion whose put the store rejects in this step: it had a
\* key to write under, so a fresh identifier was drawn, and it is answered with
\* an error.
PutRejectedNow(i) ==
  /\ IngestionAnsweredNow(i)
  /\ uuidCount' = uuidCount + 1
  /\ reqs'[i].res.status # 200

\* The objects the store holds for the identifier drawn by request i.
ObjectsOf(b, i) ==
  {k \in DOMAIN b : b[k].customMetadata.webhookId = reqs[i].auditWebhookId}

\* C19: an ingestion whose blob write fails is answered, at that step, with
\* status 500 and the message 'Failed to store webhook payload', the same
\* response for every error the store may have reported; it writes nothing then
\* or later, and the store never holds an object for it.
C19_StoreFailureIs500 ==
  /\ [][\A i \in Requests :
          PutRejectedNow(i) =>
            /\ reqs'[i].res = ErrorJson(500, 500, "Failed to store webhook payload")
            /\ bucket' = bucket]_vars
  /\ [](\A i \in Requests :
          /\ reqs[i].route = "webhook"
          /\ Answered(i)
          /\ reqs[i].auditWebhookId # Undefined
          /\ reqs[i].res.status # 200
          => /\ reqs[i].res = ErrorJson(500, 500, "Failed to store webhook payload")
             /\ ObjectsOf(bucket, i) = {})

\* An ingestion that passed every check, drew its identifier and was answered 500.
C19_Witness ==
  \E i \in Requests :
    /\ reqs[i].route = "webhook"
    /\ Answered(i)
    /\ reqs[i].res.status = 500
    /\ reqs[i].auditWebhookId # Undefined

(***************************************************************************)
(* Every operation on the blob store: ingestions, also identical ones,     *)
(* listings, downloads and deletes, interleaved at their store calls.  The *)
(* writes handed to waitUntil stay pending here.                           *)
(***************************************************************************)
MaxOps == 3

\* The requests this specification receives.
OpsRequests ==
  { Request("webhook", "esl", "mpl-zlin", Undefined, "10.0.0.1", Undefined, "Bearer s1",
            "text/csv", "a,b,c"),
    Request("list", "esl", Undefined, Undefined, Undefined, Undefined, "m2m", Undefined, ""),
    Request("customers", Undefined, Undefined, Undefined, Undefined, Undefined, "m2m",
            Undefined, ""),
    Request("audit", Undefined, Undefined, Undefined, Undefined, Undefined, "Bearer m2m",
            Undefined, ""),
    Request("download", "esl", Undefined, Uuid(1), Undefined, Undefined, "m2m",
            Undefined, ""),
    Request("delete", Undefined, Undefined, Uuid(1), Undefined, Undefined, "Bearer m2m",
            Undefined, "") }

\* A webhook request arrives and runs its chain.
ReceiveOpsWebhook ==
  /\ Len(reqs) < MaxOps
  /\ \E r \in OpsRequests : WebhookRoute(Append(reqs, Arrived(r)), Len(reqs) + 1)

\* A management request arrives and runs up to its first store call.
ReceiveOpsManage ==
  /\ Len(reqs) < MaxOps
  /\ \E r \in OpsRequests : ManageStart(Append(reqs, Arrived(r)), Len(reqs) + 1)

\* The audit store holds the entry of one earlier request, the bucket is empty.
InitOps ==
  /\ env = EnvGuarded
  /\ bucket = EmptyBucket
  /\ reqs = <<>>
  /\ uuidCount = 0
  /\ now = ClockStart
  /\ kv = [k \in {AuditKey(ClockStart, 7)} |-> SeedKv[k]]
  /\ turso = EmptyTurso

NextOps ==
  \/ ReceiveOpsWebhook
  \/ ReceiveOpsManage
  \/ \E i \in 1..Len(reqs) : FindWebhookKeyById(i)
  \/ \E i \in 1..Len(reqs) : DownloadWebhook(i)
  \/ \E i \in 1..Len(reqs) : DeleteWebhook(i)
  \/ \E i \in 1..Len(reqs) : ListWebhooks(i)
  \/ \E i \in 1..Len(reqs) : HeadWebhooks(i)
  \/ \E i \in 1..Len(reqs) : ListAuditLogs(i)

SpecOps == InitOps /\ [][NextOps]_vars

\* The object the ingestion w wrote, from its request and its response.
WrittenBy(w) == handleWebhook(reqs[w], reqs[w].res.webhookId, reqs[w].receivedAt).object

\* The ingestions that answered with the storage path k.
CreatorsOf(k) == {w \in Requests : Ingested(w) /\ reqs[w].res.storagePath = k}

\* Request i takes a step, or arrives, in this step.
ActsNow(i) == i > Len(reqs) \/ reqs'[i] # reqs[i]

\* C20: stored objects are write-once.  Every object in the blob store was
\* written by exactly one ingestion and still has the body, content type and
\* metadata that ingestion wrote; no step changes the object under a key that
\* stays, a key appears only by the ingestion that answers with it and was not
\* there before, two ingestions never answer with the same key, and the steps
\* of list, download, list-customers and list-audit requests leave the store
\* unchanged.
C20_WriteOnce ==
  /\ [](\A k \in DOMAIN bucket :
          /\ Cardinality(CreatorsOf(k)) = 1
          /\ \A w \in CreatorsOf(k) :
               /\ bucket[k] = WrittenBy(w)
               /\ bucket[k].body = reqs[w].body
               /\ bucket[k].httpMetadata.contentType = reqs[w].contentType
               /\ bucket[k].customMetadata.webhookId = reqs[w].res.webhookId)
  /\ [](\A x \in Requests : \A y \in Requests :
          Ingested(x) /\ Ingested(y) /\ x # y =>
            reqs[x].res.storagePath # reqs[y].res.storagePath)
  /\ [][/\ \A k \in DOMAIN bucket \cap DOMAIN bucket' : bucket'[k] = bucket[k]
        /\ \A k \in DOMAIN bucket' \ DOMAIN bucket :
             \E i \in 1..Len(reqs') :
               /\ ActsNow(i)
               /\ reqs'[i].route = "webhook"
               /\ reqs'[i].res.status = 200
               /\ reqs'[i].res.storagePath = k
        /\ \A i \in 1..Len(reqs') :
             ActsNow(i) /\ reqs'[i].route \in {"list", "download", "customers", "audit"} =>
               bucket' = bucket]_vars

\* Two ingestions with the same type, customer and payload have both stored
\* their object, and a listing has answered with both.
C20_Witness ==
  \E x \in Requests : \E y \in Requests : \E l \in Requests :
    /\ x # y
    /\ Ingested(x) /\ Ingested(y)
    /\ reqs[x].body = reqs[y].body /\ reqs[x].customer_id = reqs[y].customer_id
    /\ {reqs[x].res.storagePath, reqs[y].res.storagePath} \subseteq DOMAIN bucket
    /\ reqs[l].route = "list"
    /\ reqs[l].res.status = 200
    /\ Len(reqs[l].res.webhooks) = 2

\* The audit entries of request i, written or still to be written.
AuditValuesOf(i) ==
  {kv[k].value : k \in AuditEntriesOf(kv, i)} \cup {p.value : p \in PendingAuditPuts(i)}

\* Request i takes its store call in this step and the call throws.
StoreCallThrowsNow(i) ==
  /\ reqs[i].storeFault
  /\ reqs[i].pc \in {"scan", "list", "kvlist"}
  /\ reqs'[i] # reqs[i]

\* C22: a fault that is not an HTTP exception is answered with status 500 and
\* the envelope of code 7000 and message 'Internal Server Error', and the audit
\* entry of the request has status 500 and a non-null error message; an HTTP
\* exception thrown by a handler is answered with its own status, and its
\* message is the error message of the audit entry.
C22_FaultBoundary ==
  /\ [][\A i \in Requests :
          StoreCallThrowsNow(i) =>
            reqs'[i].res = ErrorJson(500, 7000, "Internal Server Error")]_vars
  /\ [](\A i \in Requests :
          Answered(i) =>
            /\ "code" \in DOMAIN reqs[i].res /\ reqs[i].res.code = 7000 =>
                 /\ reqs[i].res = ErrorJson(500, 7000, "Internal Server Error")
                 /\ \A v \in AuditValuesOf(i) : v.statusCode = 500 /\ v.errorMessage # Null
            /\ reqs[i].auditErrorMessage \notin {Undefined, "Internal Server Error"} =>
                 /\ reqs[i].res = ErrorJson(reqs[i].res.status, reqs[i].res.status,
                                            reqs[i].auditErrorMessage)
                 /\ reqs[i].res.status >= 400
                 /\ \A v \in AuditValuesOf(i) :
                      /\ v.statusCode = reqs[i].res.status
                      /\ v.errorMessage = reqs[i].res.message)

\* A webhook listing whose store call threw, answered with the 7000 envelope,
\* its audit entry written with the message.
C22_Witness ==
  \E i \in Requests :
    /\ reqs[i].route = "list"
    /\ reqs[i].res.status = 500
    /\ reqs[i].res.code = 7000
    /\ \E k \in AuditEntriesOf(kv, i) : kv[k].value.errorMessage = "Internal Server Error"

\* The audit listing i has answered with its logs.
AuditListed(i) ==
  /\ reqs[i].route = "audit"
  /\ Answered(i)
  /\ reqs[i].res.status = 200

\* The entry v, stored under a key of the audit store, passes the filters of
\* the audit listing i.
MatchesFilters(i, v) ==
  LET r == reqs[i]
  IN /\ Truthy(r.customer_id) => v.customerId = r.customer_id
     /\ Truthy(r.status_code) =>
          ~ParseInt(r.status_code).nan /\ v.statusCode = ParseInt(r.status_code).n
     /\ \E k \in DOMAIN kv :
          /\ kv[k].value = v
          /\ Truthy(r.from) => ~StrLess(Split(k, ":")[2], r.from)
          /\ Truthy(r.to) => ~StrLess(r.to, Split(k, ":")[2])

\* C23: every entry an audit listing returns passes all the filters given
\* (customer id, status code, key date within from..to), the entries come
\* newest first, and count is the number of entries returned.
C23_AuditFilters ==
  \A i \in Requests :
    AuditListed(i) =>
      LET logs == reqs[i].res.logs
      IN /\ \A m \in 1..Len(logs) : MatchesFilters(i, logs[m])
         /\ \A m \in 1..Len(logs) : \A n \in m..Len(logs) :
              DateParse(logs[m].timestamp) >= DateParse(logs[n].timestamp)
         /\ reqs[i].res.count = Len(logs)

\* A listing from 2025-01-31 to 2025-01-31 over the three entries has answered
\* with the two of that day.
C23_Witness ==
  \E i \in Requests :
    /\ AuditListed(i)
    /\ reqs[i].from = "2025-01-31" /\ reqs[i].to = "2025-01-31"
    /\ Cardinality(DOMAIN kv) = 3
    /\ Len(reqs[i].res.logs) = 2
    /\ reqs[i].res.count = 2

\* Whether request r gets to handleWebhook when the token guard is registered
\* before the IP guard.
ReachesHandlerTokenFirst(e, r) ==
  IF tokenAuthentication(e.CUSTOMER_TOKENS, r.customer_id, r.authorization) # NoResponse
    THEN FALSE
  ELSE ipValidation(e.ALLOWED_IPS, r.cfConnectingIp, r.xForwardedFor) = NoResponse

\* Request i is a webhook request that a guard answers in this step.
GuardRejectsNow(i) ==
  /\ reqs[i].route = "webhook"
  /\ reqs[i].pc # "done"
  /\ reqs'[i].pc = "done"
  /\ ~Includes(reqs'[i].passed, "token")

MatchingKeys(i) ==
  LET r == reqs[i]
  IN {k \in DOMAIN kv :
        /\ StartsWith(k, "audit:")
        /\ ~Expired(kv[k], now)
        /\ Truthy(r.from) => ~StrLess(Split(k, ":")[2], r.from)
        /\ Truthy(r.to) => ~StrLess(r.to, Split(k, ":")[2])
        /\ Truthy(r.customer_id) => kv[k].value.customerId = r.customer_id
        /\ Truthy(r.status_code) =>
             ~ParseInt(r.status_code).nan /\ kv[k].value.statusCode = ParseInt(r.status_code).n}

\* C25: an audit listing returns the most recent of the entries that pass its
\* filters: no matching entry that is left out is newer than an entry that is
\* returned.
C25_MostRecentReturned ==
  \A i \in Requests :
    AuditListed(i) =>
      LET logs == reqs[i].res.logs
      IN \A k \in MatchingKeys(i) :
           (\A m \in 1..Len(logs) : logs[m] # kv[k].value) =>
             \A m \in 1..Len(logs) :
               DateParse(kv[k].value.timestamp) <= DateParse(logs[m].timestamp)

\* The webhook listing i has answered with its page.
WebhooksListed(i) ==
  /\ reqs[i].route = "list"
  /\ Answered(i)
  /\ reqs[i].res.status = 200

\* C26: a webhook listing with the filters type and customer_id returns only
\* objects whose storage key has exactly that type segment and exactly that
\* customer segment, and exactly the date segment when date is given as well.
C26_ListingIsolation ==
  \A i \in Requests :
    WebhooksListed(i) /\ Truthy(reqs[i].type) /\ Truthy(reqs[i].customer_id) =>
      \A m \in 1..Len(reqs[i].page) :
        LET segments == Split(reqs[i].page[m].key, "/")
        IN /\ Len(reqs[i].res.webhooks) = Len(reqs[i].page)
           /\ segments[1] = reqs[i].type
           /\ segments[2] = reqs[i].customer_id
           /\ Truthy(reqs[i].date) => segments[3] = reqs[i].date

\* C27: every audit entry with a status code of 400 or above has a non-null
\* error message, for requests rejected by an exception thrown in a handler and
\* for requests a guard answers itself.
C27_ErrorMessagePresent ==
  \A i \in Requests :
    \A v \in AuditValuesOf(i) : v.statusCode >= 400 => v.errorMessage # Null

\* A webhook request that got past both guards and names a valid type and a
\* well-formed customer id that the directory resolves.
ResolvedRequest(i) ==
  /\ reqs[i].route = "webhook"
  /\ Answered(i)
  /\ reqs[i].type = "esl"
  /\ SyntaxOk(reqs[i].customer_id)
  /\ Resolves(reqs[i].customer_id)

\* The identifier is an outlet alias and no customer's own id.
IsAlias(customerId) ==
  /\ Resolves(customerId)
  /\ \A n \in 1..Len(Customers) : Customers[n].id # customerId

\* The object a successful ingestion wrote.
ObjectOf(i) == bucket[reqs[i].res.storagePath]

\* C28, as claimed: a webhook request addressed to an outlet alias is treated as
\* the parent customer throughout: the parent's policy decides the format (an id
\* match before an alias match), the token guard compares with the parent's
\* token, and the object is stored under the parent's id in key and metadata.
C28_AliasAsParent ==
  \A i \in Requests :
    ResolvedRequest(i) =>
      LET r == reqs[i]
          parent == PolicyOf(r.customer_id)
      IN /\ Passed(i, "ip") =>
              (Passed(i, "token") <=>
                 tokenAuthentication(env.CUSTOMER_TOKENS, parent.id, r.authorization) = NoResponse)
         /\ r.res.status = 415 =>
              r.res.message = "Unsupported content type. This customer only accepts: "
                                \o parent.data_format
         /\ Ingested(i) =>
              /\ Split(r.res.storagePath, "/")[2] = parent.id
              /\ ObjectOf(i).customMetadata.customerId = parent.id

\* C28, amended: the alias decides the policy only.  The policy is the parent's
\* (an id match before an alias match); the token guard compares with the token
\* configured for the identifier in the path, and the object is stored under the
\* identifier in the path, in key and metadata.
C28_AliasPolicyOnly ==
  \A i \in Requests :
    ResolvedRequest(i) =>
      LET r == reqs[i]
          parent == PolicyOf(r.customer_id)
      IN /\ Passed(i, "ip") =>
              (Passed(i, "token") <=>
                 tokenAuthentication(env.CUSTOMER_TOKENS, r.customer_id, r.authorization)
                   = NoResponse)
         /\ Passed(i, "ip") /\ Passed(i, "token") =>
              /\ r.res.status = 415 <=> ~FormatAccepted(r.customer_id, r.contentType)
              /\ r.res.status = 415 =>
                   r.res.message = "Unsupported content type. This customer only accepts: "
                                     \o parent.data_format
         /\ Ingested(i) =>
              /\ Split(r.res.storagePath, "/")[2] = r.customer_id
              /\ ObjectOf(i).customMetadata.customerId = r.customer_id
              /\ FormatAccepted(r.customer_id, r.contentType)

\* An ingestion addressed to the outlet alias zlin-1 was stored.
C28_Witness ==
  \E i \in Requests :
    /\ ResolvedRequest(i)
    /\ IsAlias(reqs[i].customer_id)
    /\ Ingested(i)
    /\ reqs[i].res.storagePath \in DOMAIN bucket
    /\ ObjectOf(i).customMetadata.customerId = "zlin-1"

\* C29: the webhook id of an audit entry is non-null exactly when the request is
\* an ingestion whose object was written: an entry with a webhook id has status
\* 200 and an object is stored under that id, and the entry of a successful
\* ingestion carries the identifier the response returned.
C29_WebhookIdIffStored ==
  \A i \in Requests :
    \A v \in AuditValuesOf(i) :
      /\ v.webhookId # Null =>
           /\ v.statusCode = 200
           /\ reqs[i].route = "webhook"
           /\ \E k \in DOMAIN bucket : bucket[k].customMetadata.webhookId = v.webhookId
      /\ Ingested(i) => v.webhookId = reqs[i].res.webhookId

\* A delete request of identifier id has been answered with success.
DeleteSucceeded(id) ==
  \E d \in Requests :
    /\ reqs[d].route = "delete"
    /\ reqs[d].webhookId = id
    /\ reqs[d].res.status = 200

\* The entries request i has handed to the delete log.
DeleteLogPuts(rs, i) ==
  IF i > Len(rs) THEN {}
  ELSE {rs[i].bg[n] : n \in {m \in 1..Len(rs[i].bg) : StartsWith(rs[i].bg[m].key, "delete:")}}

\* The key holds the object of identifier id.
KeyOf(key, id) == FirstMatch(<<key>>, id) = key

\* C30: once a delete of an identifier has answered with success, a download or
\* delete of it that arrives later answers 404, a listing that reads the store
\* later does not contain it (a listing answers with the objects of the page it
\* read), and the store holds no object of it; an entry goes
\* to the delete log only in the step that executes the storage delete, of a
\* request answered with success, never of one answered 400 or 404.
C30_DeletedStaysDeleted ==
  /\ [](\A x \in Requests :
          /\ reqs[x].route \in {"download", "delete"}
          /\ reqs[x].gone /\ Answered(x) /\ Passed(x, "s2s") /\ ~reqs[x].storeFault
          => IsError(x, 404, 404))
  /\ [](\A k \in DOMAIN bucket :
          ~DeleteSucceeded(bucket[k].customMetadata.webhookId))
  /\ [](\A l \in Requests :
          WebhooksListed(l) =>
            /\ Len(reqs[l].res.webhooks) = Len(reqs[l].page)
            /\ \A n \in 1..Len(reqs[l].page) :
                 KeyOf(reqs[l].page[n].key, reqs[l].res.webhooks[n].webhookId))
  /\ [][\A l \in Requests :
          reqs[l].route = "list" /\ reqs[l].pc = "list" /\ reqs'[l].pc = "head" =>
            \A n \in 1..Len(reqs'[l].page) :
              \A d \in Requests :
                reqs[d].route = "delete" /\ reqs[d].res.status = 200 =>
                  ~KeyOf(reqs'[l].page[n].key, reqs[d].webhookId)]_vars
  /\ [](\A i \in Requests :
          \A p \in DeleteLogPuts(reqs, i) :
            /\ reqs[i].route = "delete"
            /\ reqs[i].res.status = 200
            /\ p.value.webhookId = reqs[i].webhookId
            /\ p.value.deletedKey = reqs[i].key
            /\ reqs[i].key \notin DOMAIN bucket)
  /\ [][\A i \in 1..Len(reqs') :
          DeleteLogPuts(reqs', i) # DeleteLogPuts(reqs, i) =>
            /\ i <= Len(reqs)
            /\ reqs[i].pc = "del"
            /\ reqs[i].key \notin DOMAIN bucket']_vars

\* A download that arrived after a delete of its identifier had answered with
\* success, itself answered 404, the delete having handed its entry to the log.
C30_Witness ==
  \E d \in Requests : \E x \in Requests :
    /\ d < x
    /\ reqs[d].route = "delete" /\ reqs[d].res.status = 200
    /\ DeleteLogPuts(reqs, d) # {}
    /\ reqs[x].route = "download"
    /\ reqs[x].webhookId = reqs[d].webhookId
    /\ reqs[x].gone
    /\ reqs[x].res.status = 404

(***************************************************************************)
(* lib/turso.ts and the scheduled handler of index.ts: the relational      *)
(* audit store and its retention cleanup.                                  *)
(***************************************************************************)
\* The columns of audit_logs.  The table's definition is not among the sources;
\* these are the columns of the persisted audit schema of the specification,
\* which are the columns insertAuditLog writes.
AuditLogsColumns ==
  {"id", "timestamp", "method", "path", "status_code", "customer_id", "source_ip",
   "user_agent", "content_type", "request_size", "response_time_ms", "error_message",
   "webhook_id"}

\* The null getTursoClient returns in place of a client.
NoTursoClient == [url |-> Null, authToken |-> Null]

\* getTursoClient: null unless both credentials are configured.
getTursoClient(e) ==
  IF ~Truthy(GetProperty(e, "TURSO_DATABASE_URL")) \/ ~Truthy(GetProperty(e, "TURSO_AUTH_TOKEN"))
  THEN NoTursoClient
  ELSE [url |-> e.TURSO_DATABASE_URL, authToken |-> e.TURSO_AUTH_TOKEN]

\* insertAuditLog: INSERT INTO audit_logs (...) VALUES (...).  user_agent,
\* source_ip, content_type, request_size and response_time_ms are left out.
insertAuditLog(rows, log) == rows \cup {log}

\* DELETE FROM audit_logs WHERE <column> < ?: a statement naming a column the
\* table does not have is rejected and removes nothing; text compares by bytes.
ExecuteDelete(rows, column, bound) ==
  IF column \notin AuditLogsColumns THEN [ok |-> FALSE, rows |-> rows]
  ELSE [ok |-> TRUE, rows |-> {row \in rows : ~StrLess(row[column], bound)}]

MaxRetentionReqs == 2
MaxRows == 1
MaxRuns == 1

\* The bindings with the Turso credentials configured.
EnvTurso == EnvGuarded @@ [TURSO_DATABASE_URL |-> "libsql://audit", TURSO_AUTH_TOKEN |-> "tt"]

\* The instants at which the system is looked at: the start, an hour later, and
\* the hours around thirty days after the start.
RetentionInstants ==
  {ClockStart + h : h \in {0, 1, AUDIT_TTL - 1, AUDIT_TTL, AUDIT_TTL + 1}}

RetentionRequests ==
  { Request("webhook", "esl", "mpl-zlin", Undefined, "10.0.0.1", Undefined, "Bearer s1",
            "text/csv", "a,b,c"),
    Request("audit", Undefined, Undefined, Undefined, Undefined, Undefined, "Bearer m2m",
            Undefined, ""),
    Request("delete", Undefined, Undefined, Uuid(1), Undefined, Undefined, "Bearer m2m",
            Undefined, "") }

\* The rows a caller hands to insertAuditLog at time t for the n-th request.
AuditLogRows(t, n) ==
  { [id |-> AuditUuid(n), method |-> "POST", path |-> "/webhook/esl/mpl-zlin",
     status_code |-> s, customer_id |-> "mpl-zlin", error_message |-> Null,
     webhook_id |-> Null, timestamp |-> ToISOString(t)] : s \in {200, 401} }

\* A webhook request arrives and runs its chain.
ReceiveRetentionWebhook ==
  /\ Len(reqs) < MaxRetentionReqs
  /\ \E r \in RetentionRequests : WebhookRoute(Append(reqs, Arrived(r)), Len(reqs) + 1)

\* A management request arrives and runs up to its first store call.
ReceiveRetentionManage ==
  /\ Len(reqs) < MaxRetentionReqs
  /\ \E r \in RetentionRequests : ManageStart(Append(reqs, Arrived(r)), Len(reqs) + 1)

\* Time passes to a later instant while no request is running and no write
\* handed to waitUntil is pending: both last far less than an hour.
Elapse ==
  /\ \A i \in 1..Len(reqs) : reqs[i].pc = "done" /\ reqs[i].bg = <<>>
  /\ \E t \in RetentionInstants : t > now /\ now' = t
  /\ UNCHANGED <<env, turso, bucket, reqs, uuidCount, kv>>

\* A row is written with insertAuditLog.
InsertAuditLog ==
  /\ getTursoClient(env) # NoTursoClient
  /\ Cardinality(turso.rows) < MaxRows
  /\ \E log \in AuditLogRows(now, Cardinality(turso.rows) + 1) :
       turso' = [turso EXCEPT !.rows = insertAuditLog(@, log)]
  /\ UNCHANGED <<env, bucket, reqs, uuidCount, now, kv>>

\* scheduled: without credentials the handler returns; else it executes the
\* DELETE with the instant 30 days before now (setDate(getDate() - 30)), and a
\* rejected statement is caught and logged.
Scheduled ==
  /\ turso.scheduled < MaxRuns
  /\ IF getTursoClient(env) = NoTursoClient
       THEN turso' = [turso EXCEPT !.scheduled = @ + 1]
     ELSE turso' = [turso EXCEPT
            !.rows = ExecuteDelete(@, "created_at", ToISOString(now - 30 * HoursPerDay)).rows,
            !.scheduled = @ + 1,
            !.executed = @ + 1]
  /\ UNCHANGED <<env, bucket, reqs, uuidCount, now, kv>>

\* One earlier ingestion is stored; the audit stores are empty.
InitRetention ==
  /\ env \in {EnvGuarded, EnvTurso}
  /\ bucket = SeedBucket
  /\ reqs = <<>>
  /\ uuidCount = 1
  /\ now = ClockStart
  /\ kv = EmptyKv
  /\ turso = EmptyTurso

NextRetention ==
  \/ ReceiveRetentionWebhook
  \/ ReceiveRetentionManage
  \/ \E i \in 1..Len(reqs) : FindWebhookKeyById(i)
  \/ \E i \in 1..Len(reqs) : DeleteWebhook(i)
  \/ \E i \in 1..Len(reqs) : ListAuditLogs(i)
  \/ \E i \in 1..Len(reqs) : KvPutDone(i)
  \/ \E i \in 1..Len(reqs) : KvPutFail(i)
  \/ Elapse
  \/ InsertAuditLog
  \/ Scheduled

SpecRetention == InitRetention /\ [][NextRetention]_vars

\* Every put handed over and every entry stored carries the time to live of its
\* log: 30 days for an audit entry, 90 days for a delete-log entry.
TtlOfLog(key, ttl) ==
  /\ StartsWith(key, "audit:") => ttl = 30 * HoursPerDay
  /\ StartsWith(key, "delete:") => ttl = 90 * HoursPerDay

\* Request i is an audit listing answered with success in this step.
AuditListedNow(i) ==
  /\ reqs[i].route = "audit"
  /\ reqs[i].pc # "done"
  /\ reqs'[i].pc = "done"
  /\ reqs'[i].res.status = 200

\* The expiring store: entries carry their time to live, and an audit listing
\* returns only entries written less than 30 days before.
ExpiringStoreRetention ==
  /\ [](\A i \in Requests : \A p \in PendingPuts(i) : TtlOfLog(p.key, p.expirationTtl))
  /\ [](\A k \in DOMAIN kv : TtlOfLog(k, kv[k].expirationTtl))
  /\ [][\A i \in Requests :
          AuditListedNow(i) =>
            \A n \in 1..Len(reqs'[i].res.logs) :
              \E k \in DOMAIN kv :
                /\ kv[k].value = reqs'[i].res.logs[n]
                /\ now < kv[k].putAt + 30 * HoursPerDay]_vars

\* The relational store: after a run of the scheduled cleanup with the store
\* configured, no row older than 30 days is left.
RelationalRetention ==
  [][turso'.executed > turso.executed =>
       \A row \in turso'.rows :
         ~StrLess(row.timestamp, ToISOString(now - 30 * HoursPerDay))]_vars

====
